---------------------------- MODULE Spec2Model ----------------------------
(***************************************************************************)
(* A model of the Rubik's Cube simulator: the cube grid and its three axis *)
(* rotations (cube.py), the 3x3 move notation (cube_simulator_3x3.py) and  *)
(* the move interpreter with its history (cube_simulator.py).              *)
(*                                                                         *)
(* The cube is the 3-dimensional list self._cube: cube[face][row][column], *)
(* all three 0-indexed as in the source, so lists are functions on         *)
(* 0..n-1.  Strings are sequences of one-character strings (1-indexed, so  *)
(* the source's string[i] is s[i + 1]).                                    *)
(***************************************************************************)
EXTENDS Integers, Sequences, FiniteSets, TLC

VARIABLES size, cube, err, moves_history, last, arg, pre, base, rep, steps, repr, other, heap

vars == <<size, cube, err, moves_history, last, arg, pre, base, rep, steps, repr, other, heap>>

(***************************************************************************)
(* Bounds of the model.                                                    *)
(***************************************************************************)
MaxSize == 3

MaxSteps == 2

(***************************************************************************)
(* Colour, and the direction enums.                                        *)
(***************************************************************************)
FACES_IN_A_CUBE == 6

ColourOrder == <<"GREEN", "RED", "BLUE", "ORANGE", "WHITE", "YELLOW">>

Colour == {ColourOrder[i] : i \in 1..Len(ColourOrder)}

RowMove == {"LEFT", "RIGHT"}

ColumnMove == {"UP", "DOWN"}

RotateMove == {"ANTICLOCKWISE", "CLOCKWISE"}

Idx(n) == 0..(n - 1)

Faces == 0..(FACES_IN_A_CUBE - 1)

\* The value of an absent cube (no second cube has been built).
NoCube == <<>>

(***************************************************************************)
(* Cube state: construction, accessors and the strip writers.              *)
(***************************************************************************)
\* [[[colour] * size for _ in range(size)] for colour in Colour]
create_solved_cube(n) ==
    [face \in Faces |-> [row \in Idx(n) |-> [column \in Idx(n) |-> ColourOrder[face + 1]]]]

get_row(cb, face, row) == cb[face][row]

\* get_column reading the top square for every row.
get_column_top_square(cb, n, face, column) == [row \in Idx(n) |-> cb[face][0][column]]

\* The column as a fresh list, top-most square first.
get_column(cb, n, face, column) == [row \in Idx(n) |-> cb[face][row][column]]

get_square(cb, face, row, column) == cb[face][row][column]

\* set_row with the reverse flag ignored.
set_row_forward(cb, n, face, row, new_row_list, reverse) ==
    [cb EXCEPT ![face][row] = new_row_list]

\* Not reversed: the slot is rebound to the list given.  Reversed: the row is
\* written square by square from the end of the list.
set_row(cb, n, face, row, new_row_list, reverse) ==
    IF ~reverse
    THEN [cb EXCEPT ![face][row] = new_row_list]
    ELSE [cb EXCEPT ![face][row] = [i \in Idx(n) |-> new_row_list[n - 1 - i]]]

\* set_column with the reverse flag ignored.
set_column_forward(cb, n, face, column, new_column_list, reverse) ==
    [cb EXCEPT ![face] =
        [row \in Idx(n) |-> [cb[face][row] EXCEPT ![column] = new_column_list[row]]]]

set_column(cb, n, face, column, new_column_list, reverse) ==
    IF ~reverse
    THEN [cb EXCEPT ![face] =
            [row \in Idx(n) |-> [cb[face][row] EXCEPT ![column] = new_column_list[row]]]]
    ELSE [cb EXCEPT ![face] =
            [row \in Idx(n) |->
                [cb[face][row] EXCEPT ![column] = new_column_list[n - 1 - row]]]]

(***************************************************************************)
(* Rotation engine.                                                        *)
(***************************************************************************)
\* rotate_face with the two directions exchanged.
rotate_face_swapped(cb, n, face, direction) ==
    LET columns == [i \in Idx(n) |-> get_column(cb, n, face, i)]
    IN  IF direction = "CLOCKWISE"
        THEN [cb EXCEPT ![face] = [row \in Idx(n) |-> columns[n - 1 - row]]]
        ELSE [cb EXCEPT ![face] =
                [row \in Idx(n) |-> [column \in Idx(n) |-> columns[row][n - 1 - column]]]]

\* rotate_face whose ANTICLOCKWISE loop stops one row short and drops the
\* last row of the face.
rotate_face_drops_row(cb, n, face, direction) ==
    LET columns == [i \in Idx(n) |-> get_column(cb, n, face, i)]
    IN  IF direction = "ANTICLOCKWISE"
        THEN [cb EXCEPT ![face] = [row \in Idx(n - 1) |-> columns[n - 1 - row]]]
        ELSE [cb EXCEPT ![face] =
                [row \in Idx(n) |-> [column \in Idx(n) |-> columns[row][n - 1 - column]]]]

\* The columns of the face are stored first; ANTICLOCKWISE rebinds row r to
\* stored column n-1-r, CLOCKWISE writes square (r, c) from stored column r
\* read backwards.
rotate_face(cb, n, face, direction) ==
    LET columns == [i \in Idx(n) |-> get_column(cb, n, face, i)]
    IN  IF direction = "ANTICLOCKWISE"
        THEN [cb EXCEPT ![face] = [row \in Idx(n) |-> columns[n - 1 - row]]]
        ELSE [cb EXCEPT ![face] =
                [row \in Idx(n) |-> [column \in Idx(n) |-> columns[row][n - 1 - column]]]]

\* rotate_x whose UP branch writes the Back strip into Bottom unreversed.
rotate_x_bottom_unreversed(cb, n, column1, direction) ==
    IF ~(1 <= column1 /\ column1 <= n)
    THEN [err |-> "Invalid column", cube |-> cb]
    ELSE
    LET column == column1 - 1
        face1_column == get_column(cb, n, 1, column)
        face4_column == get_column(cb, n, 4, column)
        face3_column == get_column(cb, n, 3, n - 1 - column)
        face5_column == get_column(cb, n, 5, column)
        up1 == set_column(cb, n, 1, column, face5_column, FALSE)
        up2 == set_column(up1, n, 4, column, face1_column, FALSE)
        up3 == set_column(up2, n, 3, n - 1 - column, face4_column, TRUE)
        up4 == set_column(up3, n, 5, column, face3_column, FALSE)
        down1 == set_column(cb, n, 1, column, face4_column, FALSE)
        down2 == set_column(down1, n, 4, column, face3_column, TRUE)
        down3 == set_column(down2, n, 3, n - 1 - column, face5_column, TRUE)
        down4 == set_column(down3, n, 5, column, face1_column, FALSE)
        moved == IF direction = "UP" THEN up4 ELSE down4
    IN  [err |-> "",
         cube |->
            IF column = 0
            THEN rotate_face(moved, n, 0,
                    IF direction = "UP" THEN "ANTICLOCKWISE" ELSE "CLOCKWISE")
            ELSE IF column = n - 1
            THEN rotate_face(moved, n, 2,
                    IF direction = "UP" THEN "CLOCKWISE" ELSE "ANTICLOCKWISE")
            ELSE moved]

\* rotate_x writing Back's strip at the column it has on the other faces, not
\* at the mirrored one it was read from.
rotate_x_back_unmirrored(cb, n, column1, direction) ==
    IF ~(1 <= column1 /\ column1 <= n)
    THEN [err |-> "Invalid column", cube |-> cb]
    ELSE
    LET column == column1 - 1
        face1_column == get_column(cb, n, 1, column)
        face4_column == get_column(cb, n, 4, column)
        face3_column == get_column(cb, n, 3, n - 1 - column)
        face5_column == get_column(cb, n, 5, column)
        up1 == set_column(cb, n, 1, column, face5_column, FALSE)
        up2 == set_column(up1, n, 4, column, face1_column, FALSE)
        up3 == set_column(up2, n, 3, column, face4_column, TRUE)
        up4 == set_column(up3, n, 5, column, face3_column, TRUE)
        down1 == set_column(cb, n, 1, column, face4_column, FALSE)
        down2 == set_column(down1, n, 4, column, face3_column, TRUE)
        down3 == set_column(down2, n, 3, column, face5_column, TRUE)
        down4 == set_column(down3, n, 5, column, face1_column, FALSE)
        moved == IF direction = "UP" THEN up4 ELSE down4
    IN  [err |-> "",
         cube |->
            IF column = 0
            THEN rotate_face(moved, n, 0,
                    IF direction = "UP" THEN "ANTICLOCKWISE" ELSE "CLOCKWISE")
            ELSE IF column = n - 1
            THEN rotate_face(moved, n, 2,
                    IF direction = "UP" THEN "CLOCKWISE" ELSE "ANTICLOCKWISE")
            ELSE moved]

\* Each rotate_* gives [err, cube]: the ValueError raised (or "") and the grid
\* after the call; the index check precedes every write.
rotate_x(cb, n, column1, direction) ==
    IF ~(1 <= column1 /\ column1 <= n)
    THEN [err |-> "Invalid column", cube |-> cb]
    ELSE
    LET column == column1 - 1
        face1_column == get_column(cb, n, 1, column)
        face4_column == get_column(cb, n, 4, column)
        face3_column == get_column(cb, n, 3, n - 1 - column)
        face5_column == get_column(cb, n, 5, column)
        up1 == set_column(cb, n, 1, column, face5_column, FALSE)
        up2 == set_column(up1, n, 4, column, face1_column, FALSE)
        up3 == set_column(up2, n, 3, n - 1 - column, face4_column, TRUE)
        up4 == set_column(up3, n, 5, column, face3_column, TRUE)
        down1 == set_column(cb, n, 1, column, face4_column, FALSE)
        down2 == set_column(down1, n, 4, column, face3_column, TRUE)
        down3 == set_column(down2, n, 3, n - 1 - column, face5_column, TRUE)
        down4 == set_column(down3, n, 5, column, face1_column, FALSE)
        moved == IF direction = "UP" THEN up4 ELSE down4
    IN  [err |-> "",
         cube |->
            IF column = 0
            THEN rotate_face(moved, n, 0,
                    IF direction = "UP" THEN "ANTICLOCKWISE" ELSE "CLOCKWISE")
            ELSE IF column = n - 1
            THEN rotate_face(moved, n, 2,
                    IF direction = "UP" THEN "CLOCKWISE" ELSE "ANTICLOCKWISE")
            ELSE moved]

\* rotate_y with the cycles of LEFT and RIGHT exchanged.
rotate_y_cycles_swapped(cb, n, row1, direction) ==
    IF ~(1 <= row1 /\ row1 <= n)
    THEN [err |-> "Invalid row", cube |-> cb]
    ELSE
    LET row == row1 - 1
        face0_row == get_row(cb, 0, row)
        face1_row == get_row(cb, 1, row)
        face2_row == get_row(cb, 2, row)
        face3_row == get_row(cb, 3, row)
        left1 == set_row(cb, n, 0, row, face3_row, FALSE)
        left2 == set_row(left1, n, 1, row, face0_row, FALSE)
        left3 == set_row(left2, n, 2, row, face1_row, FALSE)
        left4 == set_row(left3, n, 3, row, face2_row, FALSE)
        right1 == set_row(cb, n, 0, row, face1_row, FALSE)
        right2 == set_row(right1, n, 1, row, face2_row, FALSE)
        right3 == set_row(right2, n, 2, row, face3_row, FALSE)
        right4 == set_row(right3, n, 3, row, face0_row, FALSE)
        moved == IF direction = "LEFT" THEN left4 ELSE right4
    IN  [err |-> "",
         cube |->
            IF row = 0
            THEN rotate_face(moved, n, 4,
                    IF direction = "LEFT" THEN "CLOCKWISE" ELSE "ANTICLOCKWISE")
            ELSE IF row = n - 1
            THEN rotate_face(moved, n, 5,
                    IF direction = "LEFT" THEN "ANTICLOCKWISE" ELSE "CLOCKWISE")
            ELSE moved]

\* rotate_y that picks the face to spin by the 1-indexed row.
rotate_y_spin_by_row1(cb, n, row1, direction) ==
    IF ~(1 <= row1 /\ row1 <= n)
    THEN [err |-> "Invalid row", cube |-> cb]
    ELSE
    LET row == row1 - 1
        face0_row == get_row(cb, 0, row)
        face1_row == get_row(cb, 1, row)
        face2_row == get_row(cb, 2, row)
        face3_row == get_row(cb, 3, row)
        left1 == set_row(cb, n, 0, row, face1_row, FALSE)
        left2 == set_row(left1, n, 1, row, face2_row, FALSE)
        left3 == set_row(left2, n, 2, row, face3_row, FALSE)
        left4 == set_row(left3, n, 3, row, face0_row, FALSE)
        right1 == set_row(cb, n, 0, row, face3_row, FALSE)
        right2 == set_row(right1, n, 1, row, face0_row, FALSE)
        right3 == set_row(right2, n, 2, row, face1_row, FALSE)
        right4 == set_row(right3, n, 3, row, face2_row, FALSE)
        moved == IF direction = "LEFT" THEN left4 ELSE right4
    IN  [err |-> "",
         cube |->
            IF row1 = 0
            THEN rotate_face(moved, n, 4,
                    IF direction = "LEFT" THEN "CLOCKWISE" ELSE "ANTICLOCKWISE")
            ELSE IF row1 = n - 1
            THEN rotate_face(moved, n, 5,
                    IF direction = "LEFT" THEN "ANTICLOCKWISE" ELSE "CLOCKWISE")
            ELSE moved]

rotate_y(cb, n, row1, direction) ==
    IF ~(1 <= row1 /\ row1 <= n)
    THEN [err |-> "Invalid row", cube |-> cb]
    ELSE
    LET row == row1 - 1
        face0_row == get_row(cb, 0, row)
        face1_row == get_row(cb, 1, row)
        face2_row == get_row(cb, 2, row)
        face3_row == get_row(cb, 3, row)
        left1 == set_row(cb, n, 0, row, face1_row, FALSE)
        left2 == set_row(left1, n, 1, row, face2_row, FALSE)
        left3 == set_row(left2, n, 2, row, face3_row, FALSE)
        left4 == set_row(left3, n, 3, row, face0_row, FALSE)
        right1 == set_row(cb, n, 0, row, face3_row, FALSE)
        right2 == set_row(right1, n, 1, row, face0_row, FALSE)
        right3 == set_row(right2, n, 2, row, face1_row, FALSE)
        right4 == set_row(right3, n, 3, row, face2_row, FALSE)
        moved == IF direction = "LEFT" THEN left4 ELSE right4
    IN  [err |-> "",
         cube |->
            IF row = 0
            THEN rotate_face(moved, n, 4,
                    IF direction = "LEFT" THEN "CLOCKWISE" ELSE "ANTICLOCKWISE")
            ELSE IF row = n - 1
            THEN rotate_face(moved, n, 5,
                    IF direction = "LEFT" THEN "ANTICLOCKWISE" ELSE "CLOCKWISE")
            ELSE moved]

\* rotate_z with the check of the index made after a spin of face 1.
rotate_z_spins_before_check(cb, n, column1, direction) ==
    IF ~(1 <= column1 /\ column1 <= n)
    THEN [err |-> "Invalid column", cube |-> rotate_face(cb, n, 1, "CLOCKWISE")]
    ELSE
    LET column == column1 - 1
        face2_column == get_column(cb, n, 2, column)
        face4_column == get_row(cb, 4, n - 1 - column)
        face0_column == get_column(cb, n, 0, n - 1 - column)
        face5_column == get_row(cb, 5, column)
        up1 == set_column(cb, n, 2, column, face5_column, TRUE)
        up2 == set_row(up1, n, 4, n - 1 - column, face2_column, FALSE)
        up3 == set_column(up2, n, 0, n - 1 - column, face4_column, TRUE)
        up4 == set_row(up3, n, 5, column, face0_column, FALSE)
        down1 == set_column(cb, n, 2, column, face4_column, FALSE)
        down2 == set_row(down1, n, 4, n - 1 - column, face0_column, TRUE)
        down3 == set_column(down2, n, 0, n - 1 - column, face5_column, FALSE)
        down4 == set_row(down3, n, 5, column, face2_column, TRUE)
        moved == IF direction = "UP" THEN up4 ELSE down4
    IN  [err |-> "",
         cube |->
            IF column = 0
            THEN rotate_face(moved, n, 1,
                    IF direction = "UP" THEN "ANTICLOCKWISE" ELSE "CLOCKWISE")
            ELSE IF column = n - 1
            THEN rotate_face(moved, n, 3,
                    IF direction = "UP" THEN "CLOCKWISE" ELSE "ANTICLOCKWISE")
            ELSE moved]

\* The strips of faces 4 and 5 are rows; the one of face 0 is the opposite
\* column.
rotate_z(cb, n, column1, direction) ==
    IF ~(1 <= column1 /\ column1 <= n)
    THEN [err |-> "Invalid column", cube |-> cb]
    ELSE
    LET column == column1 - 1
        face2_column == get_column(cb, n, 2, column)
        face4_column == get_row(cb, 4, n - 1 - column)
        face0_column == get_column(cb, n, 0, n - 1 - column)
        face5_column == get_row(cb, 5, column)
        up1 == set_column(cb, n, 2, column, face5_column, TRUE)
        up2 == set_row(up1, n, 4, n - 1 - column, face2_column, FALSE)
        up3 == set_column(up2, n, 0, n - 1 - column, face4_column, TRUE)
        up4 == set_row(up3, n, 5, column, face0_column, FALSE)
        down1 == set_column(cb, n, 2, column, face4_column, FALSE)
        down2 == set_row(down1, n, 4, n - 1 - column, face0_column, TRUE)
        down3 == set_column(down2, n, 0, n - 1 - column, face5_column, FALSE)
        down4 == set_row(down3, n, 5, column, face2_column, TRUE)
        moved == IF direction = "UP" THEN up4 ELSE down4
    IN  [err |-> "",
         cube |->
            IF column = 0
            THEN rotate_face(moved, n, 1,
                    IF direction = "UP" THEN "ANTICLOCKWISE" ELSE "CLOCKWISE")
            ELSE IF column = n - 1
            THEN rotate_face(moved, n, 3,
                    IF direction = "UP" THEN "CLOCKWISE" ELSE "ANTICLOCKWISE")
            ELSE moved]

(***************************************************************************)
(* String representation.                                                  *)
(***************************************************************************)
ColourCodes == {"G", "R", "B", "O", "W", "Y"}

get_string_from_colour(colour) ==
    CASE colour = "GREEN" -> "G"
      [] colour = "RED" -> "R"
      [] colour = "BLUE" -> "B"
      [] colour = "ORANGE" -> "O"
      [] colour = "WHITE" -> "W"
      [] colour = "YELLOW" -> "Y"

\* get_colour_from_string with a default case that returns a colour.
get_colour_from_string_defaulting(colour_string) ==
    CASE colour_string = "G" -> [err |-> "", colour |-> "GREEN"]
      [] colour_string = "R" -> [err |-> "", colour |-> "RED"]
      [] colour_string = "B" -> [err |-> "", colour |-> "BLUE"]
      [] colour_string = "O" -> [err |-> "", colour |-> "ORANGE"]
      [] colour_string = "W" -> [err |-> "", colour |-> "WHITE"]
      [] colour_string = "Y" -> [err |-> "", colour |-> "YELLOW"]
      [] OTHER -> [err |-> "", colour |-> "GREEN"]

\* [err, colour]: "Invalid string" for any other character.
get_colour_from_string(colour_string) ==
    CASE colour_string = "G" -> [err |-> "", colour |-> "GREEN"]
      [] colour_string = "R" -> [err |-> "", colour |-> "RED"]
      [] colour_string = "B" -> [err |-> "", colour |-> "BLUE"]
      [] colour_string = "O" -> [err |-> "", colour |-> "ORANGE"]
      [] colour_string = "W" -> [err |-> "", colour |-> "WHITE"]
      [] colour_string = "Y" -> [err |-> "", colour |-> "YELLOW"]
      [] OTHER -> [err |-> "Invalid string", colour |-> ""]

\* CubeIterator.__next__ run to StopIteration from the position given: the
\* squares in the order they are produced.
RECURSIVE CubeIterator(_, _, _, _, _)
CubeIterator(cb, n, current_face, current_row, current_square) ==
    IF current_face >= FACES_IN_A_CUBE
    THEN <<>>
    ELSE
    LET square == cb[current_face][current_row][current_square]
        wrap_square == current_square + 1 >= n
        wrap_row == wrap_square /\ current_row + 1 >= n
    IN  <<square>> \o
        CubeIterator(cb, n,
            IF wrap_row THEN current_face + 1 ELSE current_face,
            IF wrap_row THEN 0 ELSE IF wrap_square THEN current_row + 1 ELSE current_row,
            IF wrap_square THEN 0 ELSE current_square + 1)

get_string_representation(cb, n) ==
    LET squares == CubeIterator(cb, n, 0, 0, 0)
    IN  [i \in 1..Len(squares) |-> get_string_from_colour(squares[i])]

\* create_cube_from_string_representation filling each face column by column.
create_cube_from_string_column_major(n, string_representation) ==
    IF n <= 0
    THEN [err |-> "Invalid size", cube |-> NoCube]
    ELSE
    LET total == FACES_IN_A_CUBE * n * n
        past(i) == i >= Len(string_representation)
        read(i) == get_colour_from_string(string_representation[i + 1])
        failing == {i \in 0..(total - 1) : past(i) \/ read(i).err # ""}
        first == CHOOSE i \in failing : \A j \in failing : i <= j
    IN  IF failing # {}
        THEN [err |-> IF past(first) THEN "IndexError" ELSE read(first).err,
              cube |-> NoCube]
        ELSE [err |-> "",
              cube |-> [face \in Faces |-> [row \in Idx(n) |-> [square \in Idx(n) |->
                            read(face * n * n + square * n + row).colour]]]]

\* [err, cube].  The characters are read one by one, i counting from 0: the
\* first position that is past the end of the string raises IndexError, the
\* first character that is no colour code raises ValueError; characters after
\* the 6*size*size-th are never read.
create_cube_from_string_representation(n, string_representation) ==
    IF n <= 0
    THEN [err |-> "Invalid size", cube |-> NoCube]
    ELSE
    LET total == FACES_IN_A_CUBE * n * n
        past(i) == i >= Len(string_representation)
        read(i) == get_colour_from_string(string_representation[i + 1])
        failing == {i \in 0..(total - 1) : past(i) \/ read(i).err # ""}
        first == CHOOSE i \in failing : \A j \in failing : i <= j
    IN  IF failing # {}
        THEN [err |-> IF past(first) THEN "IndexError" ELSE read(first).err,
              cube |-> NoCube]
        ELSE [err |-> "",
              cube |-> [face \in Faces |-> [row \in Idx(n) |-> [square \in Idx(n) |->
                            read(face * n * n + row * n + square).colour]]]]

\* Cube.__init__ without its check of the size.
Cube_init_unchecked(n, string_repr) ==
    IF string_repr # <<>>
    THEN create_cube_from_string_representation(n, string_repr)
    ELSE [err |-> "", cube |-> create_solved_cube(n)]

\* Cube.__init__ without cube_list: [err, cube].  An empty string_repr is
\* falsy, and then the cube is reset to solved.
Cube_init(n, string_repr) ==
    IF n <= 0
    THEN [err |-> "Invalid size", cube |-> NoCube]
    ELSE IF string_repr # <<>>
    THEN create_cube_from_string_representation(n, string_repr)
    ELSE [err |-> "", cube |-> create_solved_cube(n)]

\* Cube.__eq__
Cube_eq(n1, cb1, n2, cb2) == n1 = n2 /\ cb1 = cb2

\* Cube.reset building the solved cube of one fixed size, whatever the
\* cube's own.
reset_to_3x3(n) == create_solved_cube(3)

\* Cube.reset
reset(n) == create_solved_cube(n)

(***************************************************************************)
(* The cube on its own: a cube of some size is constructed, solved or from *)
(* a string representation, and a client calls its rotations.              *)
(***************************************************************************)
\* Layouts a cube is constructed from (Cube(size, string_repr=...)): the
\* layout the repository's test expects after its six rotations of a 3x3
\* cube, and the layouts the same kind of sequence leaves on smaller cubes.
Fixtures ==
    { [size |-> 1, string_repr |-> <<"Y","B","W","G","R","O">>],
      [size |-> 2, string_repr |->
        <<"Y","O","R","R", "W","G","B","W", "Y","W","B","O",
          "O","O","Y","W", "G","G","B","R", "Y","R","G","B">>],
      [size |-> 3, string_repr |->
        <<"Y","W","W","Y","G","O","G","R","G", "B","R","R","G","R","G","R","R","R",
          "B","B","W","R","B","W","B","B","B", "G","Y","O","G","O","G","O","O","W",
          "G","O","R","O","W","W","O","W","W", "Y","Y","Y","B","Y","Y","O","B","Y">>] }

\* What the log variable `last` holds: the operation called last and its
\* arguments ("" and 0 where it has none).
Call(op, index, direction) == [op |-> op, index |-> index, direction |-> direction]

NoCall == Call("", 0, "")

(***************************************************************************)
(* The grid as Python stores it: each (face, row) slot of self._cube holds *)
(* a reference to a list object, get_row hands out that reference,         *)
(* get_column builds a new list, an assignment to a slot rebinds it and an *)
(* assignment to a square writes into the object the slot refers to.       *)
(*   slot[face][row]  the object the slot refers to                        *)
(*   obj[id]          the squares of a list object                         *)
(*   reg              the local variables of the running call              *)
(*   next             the identity of the next new object                  *)
(*   spun             the faces _rotate_face was called on                 *)
(*   dirty            the squares (object, index) written during the call  *)
(*   hazard           whether the call has read a square it had written    *)
(***************************************************************************)
\* create_solved_cube with one row list shared by the rows of a face
\* ([[colour] * size] * size).
new_heap_shared_rows(grid, n) ==
    [slot |-> [face \in Faces |-> [row \in Idx(n) |-> face * n]],
     obj |-> [id \in {face * n : face \in Faces} |-> grid[id \div n][0]],
     reg |-> <<>>,
     next |-> FACES_IN_A_CUBE * n,
     spun |-> <<>>,
     dirty |-> {},
     hazard |-> FALSE]

\* A grid of new row lists, one per slot (create_solved_cube and
\* create_cube_from_string_representation build each row anew).
new_heap(grid, n) ==
    [slot |-> [face \in Faces |-> [row \in Idx(n) |-> face * n + row]],
     obj |-> [id \in 0..(FACES_IN_A_CUBE * n - 1) |-> grid[id \div n][id % n]],
     reg |-> <<>>,
     next |-> FACES_IN_A_CUBE * n,
     spun |-> <<>>,
     dirty |-> {},
     hazard |-> FALSE]

\* The value of no heap (a cube whose storage is not followed).
NoHeap == <<>>

\* The statements a rotation executes.
GetRow_(dst, face, row) ==
    [op |-> "get_row", dst |-> dst, face |-> face, row |-> row, column |-> 0, src |-> dst, index |-> 0]

GetColumn_(dst, face, column) ==
    [op |-> "get_column", dst |-> dst, face |-> face, row |-> 0, column |-> column, src |-> dst, index |-> 0]

\* self._cube[face][row] = src
Bind_(face, row, src) ==
    [op |-> "bind", dst |-> src, face |-> face, row |-> row, column |-> 0, src |-> src, index |-> 0]

\* self._cube[face][row][column] = src[index]
Store_(face, row, column, src, index) ==
    [op |-> "store", dst |-> src, face |-> face, row |-> row, column |-> column, src |-> src, index |-> index]

\* The entry of _rotate_face.
Spin_(face) ==
    [op |-> "spin", dst |-> <<"", 0>>, face |-> face, row |-> 0, column |-> 0, src |-> <<"", 0>>, index |-> 0]

\* One statement on the heap.
step(h, n, s) ==
    LET set(name, id) ==
            [x \in (DOMAIN h.reg) \cup {name} |-> IF x = name THEN id ELSE h.reg[x]]
    IN  CASE s.op = "get_row" ->
                [h EXCEPT !.reg = set(s.dst, h.slot[s.face][s.row])]
          [] s.op = "get_column" ->
                [h EXCEPT !.reg = set(s.dst, h.next),
                          !.obj = [id \in (DOMAIN h.obj) \cup {h.next} |->
                                      IF id = h.next
                                      THEN [row \in Idx(n) |-> h.obj[h.slot[s.face][row]][s.column]]
                                      ELSE h.obj[id]],
                          !.next = h.next + 1,
                          !.hazard = h.hazard \/
                              \E row \in Idx(n) : <<h.slot[s.face][row], s.column>> \in h.dirty]
          [] s.op = "bind" ->
                [h EXCEPT !.slot[s.face][s.row] = h.reg[s.src]]
          [] s.op = "store" ->
                [h EXCEPT !.obj[h.slot[s.face][s.row]][s.column] = h.obj[h.reg[s.src]][s.index],
                          !.dirty = h.dirty \cup {<<h.slot[s.face][s.row], s.column>>},
                          !.hazard = h.hazard \/ <<h.reg[s.src], s.index>> \in h.dirty]
          [] s.op = "spin" ->
                [h EXCEPT !.spun = Append(h.spun, s.face)]

\* The statements in order.
RECURSIVE run(_, _, _)
run(h, n, statements) ==
    IF h.next < 0 \/ statements = <<>>
    THEN h
    ELSE run(step(h, n, Head(statements)), n, Tail(statements))

\* Cube._set_row
set_row_statements(n, face, row, src, reverse) ==
    IF ~reverse
    THEN <<Bind_(face, row, src)>>
    ELSE [k \in 1..n |-> Store_(face, row, k - 1, src, n - 1 - (k - 1))]

\* Cube._set_column
set_column_statements(n, face, column, src, reverse) ==
    IF ~reverse
    THEN [k \in 1..n |-> Store_(face, k - 1, column, src, k - 1)]
    ELSE [k \in 1..n |-> Store_(face, k - 1, column, src, n - 1 - (k - 1))]

\* Cube._rotate_face
rotate_face_statements(n, face, direction) ==
    <<Spin_(face)>> \o
    [k \in 1..n |-> GetColumn_(<<"columns", k - 1>>, face, k - 1)] \o
    (IF direction = "ANTICLOCKWISE"
     THEN [k \in 1..n |-> Bind_(face, k - 1, <<"columns", n - 1 - (k - 1)>>)]
     ELSE [k \in 1..(n * n) |->
              Store_(face, (k - 1) \div n, (k - 1) % n,
                     <<"columns", (k - 1) \div n>>, n - 1 - ((k - 1) % n))])

\* Cube.rotate_x after its check, column 0-indexed.
rotate_x_statements(n, column, direction) ==
    LET face1_column == <<"face1_column", 0>>
        face4_column == <<"face4_column", 0>>
        face3_column == <<"face3_column", 0>>
        face5_column == <<"face5_column", 0>>
    IN  <<GetColumn_(face1_column, 1, column),
          GetColumn_(face4_column, 4, column),
          GetColumn_(face3_column, 3, n - 1 - column),
          GetColumn_(face5_column, 5, column)>> \o
        (IF direction = "UP"
         THEN set_column_statements(n, 1, column, face5_column, FALSE) \o
              set_column_statements(n, 4, column, face1_column, FALSE) \o
              set_column_statements(n, 3, n - 1 - column, face4_column, TRUE) \o
              set_column_statements(n, 5, column, face3_column, TRUE)
         ELSE set_column_statements(n, 1, column, face4_column, FALSE) \o
              set_column_statements(n, 4, column, face3_column, TRUE) \o
              set_column_statements(n, 3, n - 1 - column, face5_column, TRUE) \o
              set_column_statements(n, 5, column, face1_column, FALSE)) \o
        (IF column = 0
         THEN rotate_face_statements(n, 0,
                  IF direction = "UP" THEN "ANTICLOCKWISE" ELSE "CLOCKWISE")
         ELSE IF column = n - 1
         THEN rotate_face_statements(n, 2,
                  IF direction = "UP" THEN "CLOCKWISE" ELSE "ANTICLOCKWISE")
         ELSE <<>>)

\* Cube.rotate_y after its check, row 0-indexed.
rotate_y_statements(n, row, direction) ==
    LET face0_row == <<"face0_row", 0>>
        face1_row == <<"face1_row", 0>>
        face2_row == <<"face2_row", 0>>
        face3_row == <<"face3_row", 0>>
    IN  <<GetRow_(face0_row, 0, row),
          GetRow_(face1_row, 1, row),
          GetRow_(face2_row, 2, row),
          GetRow_(face3_row, 3, row)>> \o
        (IF direction = "LEFT"
         THEN set_row_statements(n, 0, row, face1_row, FALSE) \o
              set_row_statements(n, 1, row, face2_row, FALSE) \o
              set_row_statements(n, 2, row, face3_row, FALSE) \o
              set_row_statements(n, 3, row, face0_row, FALSE)
         ELSE set_row_statements(n, 0, row, face3_row, FALSE) \o
              set_row_statements(n, 1, row, face0_row, FALSE) \o
              set_row_statements(n, 2, row, face1_row, FALSE) \o
              set_row_statements(n, 3, row, face2_row, FALSE)) \o
        (IF row = 0
         THEN rotate_face_statements(n, 4,
                  IF direction = "LEFT" THEN "CLOCKWISE" ELSE "ANTICLOCKWISE")
         ELSE IF row = n - 1
         THEN rotate_face_statements(n, 5,
                  IF direction = "LEFT" THEN "ANTICLOCKWISE" ELSE "CLOCKWISE")
         ELSE <<>>)

\* Cube.rotate_z after its check, column 0-indexed.
rotate_z_statements(n, column, direction) ==
    LET face2_column == <<"face2_column", 0>>
        face4_column == <<"face4_column", 0>>
        face0_column == <<"face0_column", 0>>
        face5_column == <<"face5_column", 0>>
    IN  <<GetColumn_(face2_column, 2, column),
          GetRow_(face4_column, 4, n - 1 - column),
          GetColumn_(face0_column, 0, n - 1 - column),
          GetRow_(face5_column, 5, column)>> \o
        (IF direction = "UP"
         THEN set_column_statements(n, 2, column, face5_column, TRUE) \o
              set_row_statements(n, 4, n - 1 - column, face2_column, FALSE) \o
              set_column_statements(n, 0, n - 1 - column, face4_column, TRUE) \o
              set_row_statements(n, 5, column, face0_column, FALSE)
         ELSE set_column_statements(n, 2, column, face4_column, FALSE) \o
              set_row_statements(n, 4, n - 1 - column, face0_column, TRUE) \o
              set_column_statements(n, 0, n - 1 - column, face5_column, FALSE) \o
              set_row_statements(n, 5, column, face2_column, TRUE)) \o
        (IF column = 0
         THEN rotate_face_statements(n, 1,
                  IF direction = "UP" THEN "ANTICLOCKWISE" ELSE "CLOCKWISE")
         ELSE IF column = n - 1
         THEN rotate_face_statements(n, 3,
                  IF direction = "UP" THEN "CLOCKWISE" ELSE "ANTICLOCKWISE")
         ELSE <<>>)

\* When the call returns its local variables are gone and the objects no
\* slot refers to with them; the objects left are renumbered by the first
\* slot that refers to each (identities matter up to renaming only).
returned(h, n) ==
    LET ids == {h.slot[face][row] : face \in Faces, row \in Idx(n)}
        first(id) ==
            CHOOSE k \in 0..(FACES_IN_A_CUBE * n - 1) :
                /\ h.slot[k \div n][k % n] = id
                /\ \A j \in 0..(k - 1) : h.slot[j \div n][j % n] # id
    IN  [slot |-> [face \in Faces |-> [row \in Idx(n) |-> first(h.slot[face][row])]],
         obj |-> [k \in {first(id) : id \in ids} |-> h.obj[h.slot[k \div n][k % n]]],
         reg |-> <<>>,
         next |-> FACES_IN_A_CUBE * n,
         spun |-> h.spun,
         dirty |-> {},
         hazard |-> h.hazard]

\* A rotation on the heap: nothing is executed when the index is rejected.
rotate_heap(h, n, op, index, direction) ==
    IF ~(1 <= index /\ index <= n)
    THEN [h EXCEPT !.spun = <<>>, !.hazard = FALSE]
    ELSE returned(run([h EXCEPT !.spun = <<>>, !.hazard = FALSE], n,
                      CASE op = "rotate_x" -> rotate_x_statements(n, index - 1, direction)
                        [] op = "rotate_y" -> rotate_y_statements(n, index - 1, direction)
                        [] op = "rotate_z" -> rotate_z_statements(n, index - 1, direction)), n)

\* The grid the slots of a heap show.
grid_of(h, n) ==
    [face \in Faces |-> [row \in Idx(n) |-> h.obj[h.slot[face][row]]]]

Init ==
    \E n \in 1..MaxSize :
    \E s \in {<<>>} \cup {f.string_repr : f \in {g \in Fixtures : g.size = n}} :
        /\ size = n
        /\ cube = Cube_init(n, s).cube
        /\ err = ""
        /\ moves_history = <<>>
        /\ last = NoCall
        /\ arg = <<>>
        /\ pre = NoCube
        /\ base = NoCube
        /\ rep = 0
        /\ steps = 0
        /\ repr = <<>>
        /\ other = NoCube
        /\ heap = NoHeap

\* A rotation call and its bookkeeping.  pre is the grid before the call; a
\* call that repeats the previous successful call continues its run (rep counts
\* the calls of the run, up to 4, and base is the grid before the run's first
\* call) and any other call starts a new run, of which at most MaxSteps are
\* made.
Rotated(call, result) ==
    LET continues == call = last /\ err = "" /\ rep \in 1..3
    IN  /\ continues \/ steps < MaxSteps
        /\ cube' = result.cube
        /\ err' = result.err
        /\ pre' = cube
        /\ last' = call
        /\ IF continues
           THEN rep' = rep + 1 /\ base' = base /\ steps' = steps
           ELSE /\ rep' = IF result.err = "" THEN 1 ELSE 0
                /\ base' = cube
                /\ steps' = steps + 1
        /\ heap' = IF heap = NoHeap
                   THEN NoHeap
                   ELSE rotate_heap(heap, size, call.op, call.index, call.direction)
        /\ UNCHANGED <<size, moves_history, arg, repr, other>>

RotateX(column, direction) ==
    Rotated(Call("rotate_x", column, direction), rotate_x(cube, size, column, direction))

RotateY(row, direction) ==
    Rotated(Call("rotate_y", row, direction), rotate_y(cube, size, row, direction))

RotateZ(column, direction) ==
    Rotated(Call("rotate_z", column, direction), rotate_z(cube, size, column, direction))

Reset ==
    /\ steps < MaxSteps
    /\ cube' = reset(size)
    /\ err' = ""
    /\ pre' = cube
    /\ base' = cube
    /\ rep' = 0
    /\ last' = Call("reset", 0, "")
    /\ steps' = steps + 1
    /\ heap' = IF heap = NoHeap THEN NoHeap ELSE new_heap(reset(size), size)
    /\ UNCHANGED <<size, moves_history, arg, repr, other>>

\* new_cube = Cube(size, string_repr=cube.get_string_representation())
RoundTrip ==
    LET string == get_string_representation(cube, size)
        built == Cube_init(size, string)
    IN  /\ steps < MaxSteps
        /\ repr' = string
        /\ other' = built.cube
        /\ err' = built.err
        /\ pre' = cube
        /\ base' = cube
        /\ rep' = 0
        /\ last' = Call("round_trip", 0, "")
        /\ steps' = steps + 1
        /\ UNCHANGED <<size, cube, moves_history, arg, heap>>

\* The indices a client passes: the valid ones and one past each end.
Indices == 0..(size + 1)

Next ==
    \/ \E column \in Indices, direction \in ColumnMove : RotateX(column, direction)
    \/ \E row \in Indices, direction \in RowMove : RotateY(row, direction)
    \/ \E column \in Indices, direction \in ColumnMove : RotateZ(column, direction)
    \/ Reset
    \/ RoundTrip

Spec == Init /\ [][Next]_vars

\* The same client with the storage of the rows followed: the cube is created
\* solved, and heap is the grid as Python stores it.
InitHeap ==
    \E n \in 1..MaxSize :
        /\ size = n
        /\ cube = Cube_init(n, <<>>).cube
        /\ err = ""
        /\ moves_history = <<>>
        /\ last = NoCall
        /\ arg = <<>>
        /\ pre = NoCube
        /\ base = NoCube
        /\ rep = 0
        /\ steps = 0
        /\ repr = <<>>
        /\ other = NoCube
        /\ heap = new_heap(Cube_init(n, <<>>).cube, n)

SpecHeap == InitHeap /\ [][Next]_vars

(***************************************************************************)
(* Properties of the cube's rotations and of its string representation.    *)
(***************************************************************************)
Solved == create_solved_cube(size)

\* The last call was this rotation, with a valid index, and went through.
Did(op) == last.op = op /\ err = ""

\* The 0-indexed slice of the last call.
slice == last.index - 1

\* A face turned a quarter: clockwise, new[r][c] = old[size-1-c][r];
\* anticlockwise, new[r][c] = old[c][size-1-r].
Turned(grid, spin) ==
    IF spin = "CLOCKWISE"
    THEN [r \in Idx(size) |-> [c \in Idx(size) |-> grid[size - 1 - c][r]]]
    ELSE [r \in Idx(size) |-> [c \in Idx(size) |-> grid[c][size - 1 - r]]]

\* C1: the same rotate_x / rotate_y / rotate_z call made 4 times in a row
\* (same index, same direction) leaves the cube exactly as it was before the
\* first of the four calls.
C1_FourFoldPeriodicity == rep = 4 => cube = base

C1_Witness ==
    /\ rep = 4
    /\ size >= 2
    /\ base # Solved
    /\ pre # cube
    /\ cube = base

C6_RotateXStrips ==
    Did("rotate_x") =>
        \A r \in Idx(size) :
            IF last.direction = "UP"
            THEN /\ cube[4][r][slice] = pre[1][r][slice]
                 /\ cube[3][r][size - 1 - slice] = pre[4][size - 1 - r][slice]
                 /\ cube[5][r][slice] = pre[3][size - 1 - r][size - 1 - slice]
                 /\ cube[1][r][slice] = pre[5][r][slice]
            ELSE /\ cube[1][r][slice] = pre[4][r][slice]
                 /\ cube[4][size - 1 - r][slice] = pre[3][r][size - 1 - slice]
                 /\ cube[3][size - 1 - r][size - 1 - slice] = pre[5][r][slice]
                 /\ cube[5][r][slice] = pre[1][r][slice]

C6_Witness ==
    /\ Did("rotate_x")
    /\ last.direction = "UP"
    /\ size >= 2
    /\ \E r \in Idx(size) : pre[3][r][size - 1 - slice] # pre[3][size - 1 - r][size - 1 - slice]
    /\ \E r \in Idx(size) : pre[4][r][slice] # pre[4][size - 1 - r][slice]
    /\ \A r \in Idx(size) : cube[5][r][slice] = pre[3][size - 1 - r][size - 1 - slice]

\* C7 as stated: rotate_y(row, LEFT) copies the row Left -> Front -> Right ->
\* Back -> Left (new Front = old Left, new Right = old Front, new Back = old
\* Right, new Left = old Back), and RIGHT the other way round.
C7_AsStated ==
    Did("rotate_y") =>
        IF last.direction = "LEFT"
        THEN /\ cube[1][slice] = pre[0][slice]
             /\ cube[2][slice] = pre[1][slice]
             /\ cube[3][slice] = pre[2][slice]
             /\ cube[0][slice] = pre[3][slice]
        ELSE /\ cube[0][slice] = pre[1][slice]
             /\ cube[1][slice] = pre[2][slice]
             /\ cube[2][slice] = pre[3][slice]
             /\ cube[3][slice] = pre[0][slice]

\* C7 as amended: rotate_y(row, LEFT) moves the row to the left around the
\* band, Front -> Left -> Back -> Right -> Front (new Left = old Front, new
\* Front = old Right, new Right = old Back, new Back = old Left), each row
\* copied in the same column order; RIGHT is the reverse cycle.
C7_RotateYStrips ==
    Did("rotate_y") =>
        IF last.direction = "LEFT"
        THEN /\ cube[0][slice] = pre[1][slice]
             /\ cube[1][slice] = pre[2][slice]
             /\ cube[2][slice] = pre[3][slice]
             /\ cube[3][slice] = pre[0][slice]
        ELSE /\ cube[1][slice] = pre[0][slice]
             /\ cube[2][slice] = pre[1][slice]
             /\ cube[3][slice] = pre[2][slice]
             /\ cube[0][slice] = pre[3][slice]

C7_Witness ==
    /\ Did("rotate_y")
    /\ last.direction = "LEFT"
    /\ size >= 2
    /\ pre[1][slice] # pre[0][slice]
    /\ pre[1][slice] # pre[2][slice]
    /\ \E c \in Idx(size) : pre[1][slice][c] # pre[1][slice][size - 1 - c]
    /\ cube[0][slice] = pre[1][slice]

\* C8: rotate_z(column, UP) moves the strip Right -> Top -> Left -> Bottom ->
\* Right, where the Top strip is row size-1-slice, the Bottom strip is row slice and the
\* Left strip is the mirrored column size-1-slice; rotate_z(column, DOWN) is the
\* reverse cycle with the same orientation.
C8_RotateZStrips ==
    Did("rotate_z") =>
        \A i \in Idx(size) :
            IF last.direction = "UP"
            THEN /\ cube[4][size - 1 - slice][i] = pre[2][i][slice]
                 /\ cube[0][i][size - 1 - slice] = pre[4][size - 1 - slice][size - 1 - i]
                 /\ cube[5][slice][i] = pre[0][i][size - 1 - slice]
                 /\ cube[2][i][slice] = pre[5][slice][size - 1 - i]
            ELSE /\ cube[2][i][slice] = pre[4][size - 1 - slice][i]
                 /\ cube[4][size - 1 - slice][size - 1 - i] = pre[0][i][size - 1 - slice]
                 /\ cube[0][i][size - 1 - slice] = pre[5][slice][i]
                 /\ cube[5][slice][size - 1 - i] = pre[2][i][slice]

C8_Witness ==
    /\ Did("rotate_z")
    /\ last.direction = "UP"
    /\ size >= 2
    /\ \E i \in Idx(size) : pre[4][size - 1 - slice][i] # pre[4][size - 1 - slice][size - 1 - i]
    /\ \E i \in Idx(size) : pre[5][slice][i] # pre[5][slice][size - 1 - i]
    /\ \A i \in Idx(size) : cube[0][i][size - 1 - slice] = pre[4][size - 1 - slice][size - 1 - i]

\* The face a rotation of an outermost slice spins, and which way, as the
\* table of the specification gives them: <<face, spin>>.
SpinTable(op, outer, direction) ==
    LET forward == direction \in {"UP", "LEFT"}
        spin(on_forward, otherwise) == IF forward THEN on_forward ELSE otherwise
    IN  CASE op = "rotate_x" /\ outer = "first" -> <<0, spin("ANTICLOCKWISE", "CLOCKWISE")>>
          [] op = "rotate_x" /\ outer = "last" -> <<2, spin("CLOCKWISE", "ANTICLOCKWISE")>>
          [] op = "rotate_y" /\ outer = "first" -> <<4, spin("CLOCKWISE", "ANTICLOCKWISE")>>
          [] op = "rotate_y" /\ outer = "last" -> <<5, spin("ANTICLOCKWISE", "CLOCKWISE")>>
          [] op = "rotate_z" /\ outer = "first" -> <<1, spin("ANTICLOCKWISE", "CLOCKWISE")>>
          [] op = "rotate_z" /\ outer = "last" -> <<3, spin("CLOCKWISE", "ANTICLOCKWISE")>>

Rotations == {"rotate_x", "rotate_y", "rotate_z"}

\* C9: for size >= 2, a rotation of an outermost slice spins the face and in
\* the direction the table gives: index 1 of rotate_x / rotate_y / rotate_z
\* spins Left / Top / Front, index size spins Right / Bottom / Back.
C9_FaceSpinTable ==
    (last.op \in Rotations /\ err = "" /\ size >= 2 /\ slice \in {0, size - 1}) =>
        LET entry == SpinTable(last.op, IF slice = 0 THEN "first" ELSE "last", last.direction)
        IN  cube[entry[1]] = Turned(pre[entry[1]], entry[2])

C9_Witness ==
    /\ Did("rotate_z")
    /\ size >= 3
    /\ slice = size - 1
    /\ last.direction = "UP"
    /\ cube[3] = Turned(pre[3], "CLOCKWISE")
    /\ cube[3] # Turned(pre[3], "ANTICLOCKWISE")
    /\ cube[3] # pre[3]

\* The squares of the four strips a rotation of slice j moves.
Strips(op, j) ==
    CASE op = "rotate_x" ->
            {<<1, r, j>> : r \in Idx(size)} \cup {<<4, r, j>> : r \in Idx(size)}
            \cup {<<5, r, j>> : r \in Idx(size)}
            \cup {<<3, r, size - 1 - j>> : r \in Idx(size)}
      [] op = "rotate_y" ->
            {<<face, j, c>> : face \in 0..3, c \in Idx(size)}
      [] op = "rotate_z" ->
            {<<2, i, j>> : i \in Idx(size)} \cup {<<4, size - 1 - j, i>> : i \in Idx(size)}
            \cup {<<0, i, size - 1 - j>> : i \in Idx(size)}
            \cup {<<5, j, i>> : i \in Idx(size)}

\* The two faces perpendicular to the axis: <<the one at index 1, the one at
\* index size>>.
AxisFaces(op) ==
    CASE op = "rotate_x" -> <<0, 2>>
      [] op = "rotate_y" -> <<4, 5>>
      [] op = "rotate_z" -> <<1, 3>>

\* C10: a rotation changes only its own slice: every square outside the four
\* strips and outside the one face an outer index spins is unchanged; so a
\* middle index leaves both axis faces unchanged, and an outer index leaves
\* the opposite axis face unchanged.
C10_Frame ==
    (last.op \in Rotations /\ err = "") =>
        LET axis == AxisFaces(last.op)
            spun == IF slice = 0 THEN {axis[1]} ELSE IF slice = size - 1 THEN {axis[2]} ELSE {}
        IN  \A face \in Faces, r \in Idx(size), c \in Idx(size) :
                (<<face, r, c>> \notin Strips(last.op, slice) /\ face \notin spun)
                    => cube[face][r][c] = pre[face][r][c]

C10_Witness ==
    /\ last.op \in Rotations
    /\ err = ""
    /\ size >= 3
    /\ 0 < slice /\ slice < size - 1
    /\ pre # Solved
    /\ cube # pre
    /\ cube[AxisFaces(last.op)[1]] = pre[AxisFaces(last.op)[1]]
    /\ cube[AxisFaces(last.op)[2]] = pre[AxisFaces(last.op)[2]]
    /\ \E r \in Idx(size), c \in Idx(size) :
          pre[AxisFaces(last.op)[1]][r][c] # pre[AxisFaces(last.op)[1]][c][r]

(***************************************************************************)
(* The 3x3 simulator: the move notation, the interpreter of move strings   *)
(* and the history.                                                        *)
(***************************************************************************)
\* CubeSimulator3x3 builds its cube with size 3.
SimSize == 3

\* Each move_* is the sequence of the rotations it calls on the cube, in the
\* order it calls them.
\* move_U with the directions of the plain and the primed move exchanged.
move_U_exchanged(prime) == <<Call("rotate_y", 1, IF ~prime THEN "RIGHT" ELSE "LEFT")>>

move_U(prime) == <<Call("rotate_y", 1, IF ~prime THEN "LEFT" ELSE "RIGHT")>>

\* move_D turning the middle row.
move_D_on_row_2(prime) == <<Call("rotate_y", 2, IF ~prime THEN "RIGHT" ELSE "LEFT")>>

move_D(prime) == <<Call("rotate_y", 3, IF ~prime THEN "RIGHT" ELSE "LEFT")>>

move_L(prime) == <<Call("rotate_x", 1, IF ~prime THEN "DOWN" ELSE "UP")>>

move_R(prime) == <<Call("rotate_x", 3, IF ~prime THEN "UP" ELSE "DOWN")>>

\* move_F on the slice next to Back.
move_F_on_slice_3(prime) == <<Call("rotate_z", 3, IF ~prime THEN "DOWN" ELSE "UP")>>

move_F(prime) == <<Call("rotate_z", 1, IF ~prime THEN "DOWN" ELSE "UP")>>

move_B(prime) == <<Call("rotate_z", 3, IF ~prime THEN "UP" ELSE "DOWN")>>

\* move_M on the column next to Left.
move_M_on_column_1(prime) == <<Call("rotate_x", 1, IF ~prime THEN "DOWN" ELSE "UP")>>

move_M(prime) == <<Call("rotate_x", 2, IF ~prime THEN "DOWN" ELSE "UP")>>

move_E(prime) == <<Call("rotate_y", 2, IF ~prime THEN "RIGHT" ELSE "LEFT")>>

move_S(prime) == <<Call("rotate_z", 2, IF ~prime THEN "DOWN" ELSE "UP")>>

move_u(prime) == move_U(prime) \o move_E(~prime)

move_d(prime) == move_D(prime) \o move_E(prime)

move_l(prime) == move_L(prime) \o move_M(prime)

move_r(prime) == move_R(prime) \o move_M(~prime)

move_f(prime) == move_F(prime) \o move_S(prime)

move_b(prime) == move_B(prime) \o move_S(~prime)

move_x(prime) == move_R(prime) \o move_l(~prime)

\* move_y with the same prime handed to move_d.
move_y_same_prime(prime) == move_U(prime) \o move_d(prime)

move_y(prime) == move_U(prime) \o move_d(~prime)

\* move_z that follows move_F with move_d instead of move_b.
move_z_with_d(prime) == move_F(prime) \o move_d(~prime)

move_z(prime) == move_F(prime) \o move_b(~prime)

\* The keys of self._moves, in the order of the dict.
MoveSymbols ==
    <<"U", "D", "L", "R", "F", "B", "M", "E", "S",
      "u", "d", "l", "r", "f", "b", "x", "y", "z">>

get_moves == {MoveSymbols[i] : i \in 1..Len(MoveSymbols)}

\* self._moves[char] called with the keyword argument prime.
moves(char, prime) ==
    CASE char = "U" -> move_U(prime)
      [] char = "D" -> move_D(prime)
      [] char = "L" -> move_L(prime)
      [] char = "R" -> move_R(prime)
      [] char = "F" -> move_F(prime)
      [] char = "B" -> move_B(prime)
      [] char = "M" -> move_M(prime)
      [] char = "E" -> move_E(prime)
      [] char = "S" -> move_S(prime)
      [] char = "u" -> move_u(prime)
      [] char = "d" -> move_d(prime)
      [] char = "l" -> move_l(prime)
      [] char = "r" -> move_r(prime)
      [] char = "f" -> move_f(prime)
      [] char = "b" -> move_b(prime)
      [] char = "x" -> move_x(prime)
      [] char = "y" -> move_y(prime)
      [] char = "z" -> move_z(prime)

\* move_twice that calls the move once.
move_twice_once(char) == moves(char, FALSE)

\* move(); move()
move_twice(char) == moves(char, FALSE) \o moves(char, FALSE)

\* The grid of the simulator's cube after the rotations of calls.
RECURSIVE rotations(_, _)
rotations(cb, calls) ==
    IF calls = <<>>
    THEN cb
    ELSE LET call == Head(calls)
             rotated ==
                CASE call.op = "rotate_x" ->
                        rotate_x(cb, SimSize, call.index, call.direction).cube
                  [] call.op = "rotate_y" ->
                        rotate_y(cb, SimSize, call.index, call.direction).cube
                  [] call.op = "rotate_z" ->
                        rotate_z(cb, SimSize, call.index, call.direction).cube
         IN  rotations(rotated, Tail(calls))

not_whitespace(char) == char \notin {" ", "\t"}

\* The string handed on as it came, whitespace and all (the loop of
\* perform_moves run on moves_string itself).
remove_whitespace_nothing(input_str) == input_str

remove_whitespace(input_str) == SelectSeq(input_str, not_whitespace)

\* perform_char that passes over a character that is not a key of self._moves.
perform_char_skips_unknown(char, at) ==
    LET flushed ==
            IF at.stored_char # ""
            THEN [at EXCEPT !.cube = rotations(at.cube, moves(at.stored_char, FALSE)),
                            !.moves_list = Append(at.moves_list, <<at.stored_char>>)]
            ELSE at
    IN  IF char = "2"
        THEN IF at.stored_char # ""
             THEN [at EXCEPT !.cube = rotations(at.cube, move_twice(at.stored_char)),
                             !.moves_list = Append(at.moves_list, <<at.stored_char, char>>),
                             !.stored_char = ""]
             ELSE [at EXCEPT !.err = "Typed 2 with nothing/invalid value before it"]
        ELSE IF char = "'"
        THEN IF at.stored_char # ""
             THEN [at EXCEPT !.cube = rotations(at.cube, moves(at.stored_char, TRUE)),
                             !.moves_list = Append(at.moves_list, <<at.stored_char, char>>),
                             !.stored_char = ""]
             ELSE [at EXCEPT !.err = "Typed ' with nothing/invalid value before it"]
        ELSE IF char \in get_moves
             THEN [flushed EXCEPT !.stored_char = char]
             ELSE at

\* perform_char that passes over a modifier with no move stored before it.
perform_char_skips_modifier(char, at) ==
    LET flushed ==
            IF at.stored_char # ""
            THEN [at EXCEPT !.cube = rotations(at.cube, moves(at.stored_char, FALSE)),
                            !.moves_list = Append(at.moves_list, <<at.stored_char>>)]
            ELSE at
    IN  IF char = "2"
        THEN IF at.stored_char # ""
             THEN [at EXCEPT !.cube = rotations(at.cube, move_twice(at.stored_char)),
                             !.moves_list = Append(at.moves_list, <<at.stored_char, char>>),
                             !.stored_char = ""]
             ELSE at
        ELSE IF char = "'"
        THEN IF at.stored_char # ""
             THEN [at EXCEPT !.cube = rotations(at.cube, moves(at.stored_char, TRUE)),
                             !.moves_list = Append(at.moves_list, <<at.stored_char, char>>),
                             !.stored_char = ""]
             ELSE at
        ELSE IF char \in get_moves
             THEN [flushed EXCEPT !.stored_char = char]
             ELSE [flushed EXCEPT !.err = "Invalid character"]

\* perform_char that stores a new letter without calling the move stored
\* before it.
perform_char_drops_stored(char, at) ==
    IF char = "2"
    THEN IF at.stored_char # ""
         THEN [at EXCEPT !.cube = rotations(at.cube, move_twice(at.stored_char)),
                         !.moves_list = Append(at.moves_list, <<at.stored_char, char>>),
                         !.stored_char = ""]
         ELSE [at EXCEPT !.err = "Typed 2 with nothing/invalid value before it"]
    ELSE IF char = "'"
    THEN IF at.stored_char # ""
         THEN [at EXCEPT !.cube = rotations(at.cube, moves(at.stored_char, TRUE)),
                         !.moves_list = Append(at.moves_list, <<at.stored_char, char>>),
                         !.stored_char = ""]
         ELSE [at EXCEPT !.err = "Typed ' with nothing/invalid value before it"]
    ELSE IF char \in get_moves
         THEN [at EXCEPT !.stored_char = char]
         ELSE [at EXCEPT !.err = "Invalid character"]

\* One pass of perform_moves's loop, for the character char.  at holds the
\* cube and the loop's variables: stored_char is "" where the source holds
\* None, a move of moves_list is the sequence of its characters, and err is
\* the message of the ValueError raised, "" if none ("Invalid character"
\* stands for the message that goes on with the character).
perform_char(char, at) ==
    LET flushed ==
            IF at.stored_char # ""
            THEN [at EXCEPT !.cube = rotations(at.cube, moves(at.stored_char, FALSE)),
                            !.moves_list = Append(at.moves_list, <<at.stored_char>>)]
            ELSE at
    IN  IF char = "2"
        THEN IF at.stored_char # ""
             THEN [at EXCEPT !.cube = rotations(at.cube, move_twice(at.stored_char)),
                             !.moves_list = Append(at.moves_list, <<at.stored_char, char>>),
                             !.stored_char = ""]
             ELSE [at EXCEPT !.err = "Typed 2 with nothing/invalid value before it"]
        ELSE IF char = "'"
        THEN IF at.stored_char # ""
             THEN [at EXCEPT !.cube = rotations(at.cube, moves(at.stored_char, TRUE)),
                             !.moves_list = Append(at.moves_list, <<at.stored_char, char>>),
                             !.stored_char = ""]
             ELSE [at EXCEPT !.err = "Typed ' with nothing/invalid value before it"]
        ELSE IF char \in get_moves
             THEN [flushed EXCEPT !.stored_char = char]
             ELSE [flushed EXCEPT !.err = "Invalid character"]

\* The loop of perform_moves from character i on, and the call of the move
\* still stored when the loop ends.  A raise leaves the grid with the moves
\* already made.
RECURSIVE perform_chars(_, _, _)
perform_chars(string, i, at) ==
    IF at.err # ""
    THEN at
    ELSE IF i > Len(string)
    THEN IF at.stored_char # ""
         THEN [at EXCEPT !.cube = rotations(at.cube, moves(at.stored_char, FALSE)),
                         !.moves_list = Append(at.moves_list, <<at.stored_char>>)]
         ELSE at
    ELSE perform_chars(string, i + 1, perform_char(string[i], at))

\* record_moves that appends a moves_list with no move in it too.
record_moves_appends_empty(done, history, record) ==
    [cube |-> done.cube,
     err |-> done.err,
     moves_history |->
        IF done.err = "" /\ record
        THEN Append(history, done.moves_list)
        ELSE history]

\* The end of perform_moves, done being what its loop gave: a moves_list
\* that is not empty is appended to the history when record is set.
record_moves(done, history, record) ==
    [cube |-> done.cube,
     err |-> done.err,
     moves_history |->
        IF done.err = "" /\ record /\ Len(done.moves_list) > 0
        THEN Append(history, done.moves_list)
        ELSE history]

\* perform_moves that puts the grid back as it was when the loop fails.
restored_on_error(done, cb) == IF done.err # "" THEN [done EXCEPT !.cube = cb] ELSE done

perform_moves_atomic(cb, history, moves_string, record) ==
    record_moves(
        restored_on_error(
            perform_chars(remove_whitespace(moves_string), 1,
                          [cube |-> cb, stored_char |-> "", moves_list |-> <<>>, err |-> ""]),
            cb),
        history, record)

\* [cube, moves_history, err]
perform_moves(cb, history, moves_string, record) ==
    record_moves(
        perform_chars(remove_whitespace(moves_string), 1,
                      [cube |-> cb, stored_char |-> "", moves_list |-> <<>>, err |-> ""]),
        history, record)

\* get_inverse_sequence that goes through the sequence first to last.
RECURSIVE inverse_first_to_last(_)
inverse_first_to_last(moves_sequence) ==
    IF moves_sequence = <<>>
    THEN <<>>
    ELSE LET move == Head(moves_sequence)
         IN  (IF Len(move) = 1 THEN move \o <<"'">>
              ELSE IF move[2] = "'" THEN <<move[1]>>
              ELSE IF move[2] = "2" THEN move
              ELSE <<>>) \o inverse_first_to_last(Tail(moves_sequence))

\* The loop of get_inverse_sequence from index i (1-indexed here) down.
RECURSIVE inverse_from(_, _)
inverse_from(moves_sequence, i) ==
    IF i < 1
    THEN <<>>
    ELSE LET move == moves_sequence[i]
         IN  (IF Len(move) = 1 THEN move \o <<"'">>
              ELSE IF move[2] = "'" THEN <<move[1]>>
              ELSE IF move[2] = "2" THEN move
              ELSE <<>>) \o inverse_from(moves_sequence, i - 1)

\* get_inverse_sequence that reverses the moves and leaves each as it is.
RECURSIVE reversed_from(_, _)
reversed_from(moves_sequence, i) ==
    IF i < 1 THEN <<>> ELSE moves_sequence[i] \o reversed_from(moves_sequence, i - 1)

get_inverse_sequence_unflipped(moves_sequence) ==
    reversed_from(moves_sequence, Len(moves_sequence))

get_inverse_sequence(moves_sequence) == inverse_from(moves_sequence, Len(moves_sequence))

\* undo_moves_sequence that performs the inverse with record left at True.
undo_moves_sequence_recorded(cb, history) ==
    IF Len(history) = 0
    THEN [cube |-> cb, moves_history |-> history,
          err |-> "No moves sequence to undo.", returned |-> <<>>]
    ELSE
    LET previous_moves_sequence == history[Len(history)]
        popped == SubSeq(history, 1, Len(history) - 1)
        inverse_sequence == get_inverse_sequence(previous_moves_sequence)
    IN  perform_moves(cb, popped, inverse_sequence, TRUE)
            @@ [returned |-> inverse_sequence]

\* undo_moves_sequence without its check: an empty history is answered by
\* returning an empty sequence.
undo_moves_sequence_unchecked(cb, history) ==
    IF Len(history) = 0
    THEN [cube |-> cb, moves_history |-> history,
          err |-> "", returned |-> <<>>]
    ELSE
    LET previous_moves_sequence == history[Len(history)]
        popped == SubSeq(history, 1, Len(history) - 1)
        inverse_sequence == get_inverse_sequence(previous_moves_sequence)
    IN  perform_moves(cb, popped, inverse_sequence, FALSE)
            @@ [returned |-> inverse_sequence]

\* [cube, moves_history, err, returned]
\* undo_moves_sequence taking the oldest entry of the history, not the latest.
undo_moves_sequence_oldest(cb, history) ==
    IF Len(history) = 0
    THEN [cube |-> cb, moves_history |-> history,
          err |-> "No moves sequence to undo.", returned |-> <<>>]
    ELSE perform_moves(cb, Tail(history), get_inverse_sequence(history[1]), FALSE)
            @@ [returned |-> get_inverse_sequence(history[1])]

undo_moves_sequence(cb, history) ==
    IF Len(history) = 0
    THEN [cube |-> cb, moves_history |-> history,
          err |-> "No moves sequence to undo.", returned |-> <<>>]
    ELSE
    LET previous_moves_sequence == history[Len(history)]
        popped == SubSeq(history, 1, Len(history) - 1)
        inverse_sequence == get_inverse_sequence(previous_moves_sequence)
    IN  perform_moves(cb, popped, inverse_sequence, FALSE)
            @@ [returned |-> inverse_sequence]

\* The move strings a caller passes with record left at True: the four
\* patterns of the tests, the example of perform_moves's docstring, strings of
\* wide and whole-cube moves, the empty string, and strings perform_moves
\* rejects.
MoveStrings ==
    { <<"M", "2", "E", "2", "S", "2">>,
      <<"M", "E", "S", "M", "E", "S">>,
      <<"F", " ", "L", " ", "F", " ", "U", "'", " ", "R", " ", "U",
        " ", "F", "2", " ", "L", "2", " ", "U", "'", " ", "L", "'",
        " ", "B", " ", "D", "'", " ", "B", "'", " ", "L", "2", " ",
        "U">>,
      <<"U", "'", " ", "L", "'", " ", "U", "'", " ", "F", "'", " ",
        "R", "2", " ", "B", "'", " ", "R", " ", "F", " ", "U", " ",
        "B", "2", " ", "U", " ", "B", "'", " ", "L", " ", "U", "'",
        " ", "F", " ", "U", " ", "R", " ", "F", "'">>,
      <<"R", "U", "R", "'", "U", "'">>,
      <<"u", " ", "d", "'", " ", "l", "2", " ", "r", " ", "f", "'",
        " ", "b", "2">>,
      <<"x", " ", "y", "'", " ", "z", "2">>,
      <<>>,
      <<"U", "2", "'">>,
      <<"R", " ", "U", " ", "Q">> }

\* The move strings a caller passes with record=False.
UnrecordedStrings ==
    { <<"R", "U", "R", "'", "U", "'">>,
      <<"x", " ", "y", "'", " ", "z", "2">>,
      <<"R", " ", "U", " ", "Q">> }

InitSim ==
    /\ size = SimSize
    /\ cube = Cube_init(SimSize, <<>>).cube
    /\ err = ""
    /\ moves_history = <<>>
    /\ last = NoCall
    /\ arg = <<>>
    /\ pre = NoCube
    /\ base = NoCube
    /\ rep = 0
    /\ steps = 0
    /\ repr = <<>>
    /\ other = NoCube
    /\ heap = NoHeap

\* In the simulator's log, last.index is 1 for a perform_moves call that
\* appended an entry to the history and last.direction is what the previous
\* call was; base is the grid before the last perform_moves call and arg the
\* string it was given (for an undo, the string it returned).
PerformMoves(moves_string, record) ==
    LET done == perform_moves(cube, moves_history, moves_string, record)
    IN  /\ steps < MaxSteps
        /\ cube' = done.cube
        /\ moves_history' = done.moves_history
        /\ err' = done.err
        /\ pre' = cube
        /\ base' = cube
        /\ arg' = moves_string
        /\ last' = Call("perform_moves",
                        IF Len(done.moves_history) > Len(moves_history) THEN 1 ELSE 0,
                        last.op)
        /\ steps' = steps + 1
        /\ UNCHANGED <<size, rep, repr, other, heap>>

UndoMovesSequence ==
    LET done == undo_moves_sequence(cube, moves_history)
    IN  /\ cube' = done.cube
        /\ moves_history' = done.moves_history
        /\ err' = done.err
        /\ pre' = cube
        /\ arg' = done.returned
        /\ last' = Call("undo_moves_sequence", 0,
                        IF last.op = "perform_moves" /\ last.index = 1
                        THEN "perform_moves appended" ELSE last.op)
        /\ UNCHANGED <<size, base, rep, steps, repr, other, heap>>

\* reset_cube without the clearing of the history.
reset_cube_keeps_history(cb, history) ==
    [cube |-> reset(SimSize), moves_history |-> history]

\* [cube, moves_history]
reset_cube(cb, history) ==
    [cube |-> reset(SimSize), moves_history |-> <<>>]

\* In the log of a reset, last.index is the number of entries the history
\* held before it.
ResetCube ==
    /\ cube' = reset_cube(cube, moves_history).cube
    /\ moves_history' = reset_cube(cube, moves_history).moves_history
    /\ err' = ""
    /\ pre' = cube
    /\ arg' = <<>>
    /\ last' = Call("reset_cube", Len(moves_history), last.op)
    /\ UNCHANGED <<size, base, rep, steps, repr, other, heap>>

NextSim ==
    \/ \E moves_string \in MoveStrings : PerformMoves(moves_string, TRUE)
    \/ \E moves_string \in UnrecordedStrings : PerformMoves(moves_string, FALSE)
    \/ UndoMovesSequence
    \/ ResetCube

SpecSim == InitSim /\ [][NextSim]_vars

(***************************************************************************)
(* Properties of the simulator.                                            *)
(***************************************************************************)
\* perform_moves on the simulator as it stands, then on what a call left.
performed(moves_string) == perform_moves(cube, moves_history, moves_string, TRUE)

then_performed(done, moves_string) ==
    perform_moves(done.cube, done.moves_history, moves_string, TRUE)

Modifiers == {<<>>, <<"'">>, <<"2">>}

\* C2: from every reachable state of the simulator and for each of the 18
\* symbols m, perform_moves of m and then of m' goes through and leaves the
\* grid as it was before m, and so does m' and then m.
C2_MoveThenPrimeRestores ==
    \A i \in 1..Len(MoveSymbols) :
        LET m == MoveSymbols[i]
            m_prime == then_performed(performed(<<m>>), <<m, "'">>)
            prime_m == then_performed(performed(<<m, "'">>), <<m>>)
        IN  /\ m_prime.err = "" /\ m_prime.cube = cube
            /\ prime_m.err = "" /\ prime_m.cube = cube

\* A scrambled grid, left by two calls of perform_moves, that each symbol and
\* each primed symbol changes, and to which the other one brings back.
C2_Witness ==
    /\ last.op = "perform_moves" /\ err = "" /\ steps = 2
    /\ cube # Solved
    /\ \A i \in 1..Len(MoveSymbols) :
        LET m == MoveSymbols[i]
        IN  /\ performed(<<m>>).cube # cube
            /\ performed(<<m, "'">>).cube # cube
            /\ performed(<<m>>).cube # performed(<<m, "'">>).cube
            /\ then_performed(performed(<<m>>), <<m, "'">>).cube = cube

\* C3: an undo_moves_sequence called right after a perform_moves that appended
\* its sequence to the history goes through and leaves the grid that
\* perform_moves was called on; and from every reachable state, so does the
\* undo of each single plain, primed or doubled move.
C3_UndoRestores ==
    /\ last.op = "undo_moves_sequence" /\ last.direction = "perform_moves appended"
            => err = "" /\ cube = base
    /\ \A i \in 1..Len(MoveSymbols) : \A modifier \in Modifiers :
        LET done == performed(<<MoveSymbols[i]>> \o modifier)
            undone == undo_moves_sequence(done.cube, done.moves_history)
        IN  /\ done.err = "" /\ Len(done.moves_history) = Len(moves_history) + 1
            /\ undone.err = "" /\ undone.cube = cube

\* An undo right after a recorded sequence of plain, primed and doubled moves
\* that was performed on a scrambled grid and changed it.
C3_Witness ==
    /\ last.op = "undo_moves_sequence" /\ last.direction = "perform_moves appended"
    /\ err = ""
    /\ base # Solved /\ pre # base /\ cube = base
    /\ \E i, j, k \in 1..Len(arg) :
            /\ arg[i] = "'" /\ arg[j] = "2"
            /\ arg[k] \in get_moves /\ (k = Len(arg) \/ arg[k + 1] \in get_moves)

\* C4: from every reachable state and for each symbol m, perform_moves of "m2"
\* leaves the grid that two calls of perform_moves of m leave, which is also
\* the grid perform_moves of "mm" leaves.
C4_DoubleIsTwice ==
    \A i \in 1..Len(MoveSymbols) :
        LET m == MoveSymbols[i]
            double == performed(<<m, "2">>)
            twice == then_performed(performed(<<m>>), <<m>>)
        IN  /\ double.err = "" /\ twice.err = ""
            /\ double.cube = twice.cube
            /\ double.cube = performed(<<m, m>>).cube

\* A scrambled grid, left by a string with a doubled move, on which each "m2"
\* gives a grid that is neither the one m gives nor the one it started from.
C4_Witness ==
    /\ last.op = "perform_moves" /\ err = "" /\ cube # Solved
    /\ \E j \in 1..Len(arg) : arg[j] = "2"
    /\ \A i \in 1..Len(MoveSymbols) :
        LET m == MoveSymbols[i]
        IN  /\ performed(<<m, "2">>).cube # performed(<<m>>).cube
            /\ performed(<<m, "2">>).cube # cube
            /\ performed(<<m, "2">>).cube = then_performed(performed(<<m>>), <<m>>).cube

(***************************************************************************)
(* The two directions of a rotation.                                       *)
(***************************************************************************)
Opposite(direction) ==
    CASE direction = "UP" -> "DOWN"
      [] direction = "DOWN" -> "UP"
      [] direction = "LEFT" -> "RIGHT"
      [] direction = "RIGHT" -> "LEFT"

\* The rotation op of index and direction on the grid cb of a cube of size n.
rotate(cb, n, op, index, direction) ==
    CASE op = "rotate_x" -> rotate_x(cb, n, index, direction)
      [] op = "rotate_y" -> rotate_y(cb, n, index, direction)
      [] op = "rotate_z" -> rotate_z(cb, n, index, direction)

\* C11: after every rotate_x, rotate_y or rotate_z that went through, the
\* same rotation in the opposite direction goes through and gives the grid
\* the first one was called on (UP then DOWN, DOWN then UP, LEFT then RIGHT,
\* RIGHT then LEFT, at every size and index).
C11_OppositeDirectionRestores ==
    \A op \in Rotations :
        Did(op) =>
            LET back == rotate(cube, size, op, last.index, Opposite(last.direction))
            IN  back.err = "" /\ back.cube = pre

\* A rotation of an inner or outer slice that changed a scrambled grid of
\* size 2 or more, and whose opposite gives that grid back.
C11_Witness ==
    /\ \E op \in Rotations : Did(op)
    /\ size >= 2
    /\ pre # Solved /\ cube # pre
    /\ rotate(cube, size, last.op, last.index, Opposite(last.direction)).cube = pre

(***************************************************************************)
(* The face moves of the 3x3 notation.                                     *)
(***************************************************************************)
\* For each face move: the face it is named after, the face opposite, and
\* the rotation and 0-indexed slice next to its face.
FaceMoves ==
    { [symbol |-> "U", face |-> 4, opposite |-> 5, op |-> "rotate_y", slice |-> 0],
      [symbol |-> "D", face |-> 5, opposite |-> 4, op |-> "rotate_y", slice |-> 2],
      [symbol |-> "L", face |-> 0, opposite |-> 2, op |-> "rotate_x", slice |-> 0],
      [symbol |-> "R", face |-> 2, opposite |-> 0, op |-> "rotate_x", slice |-> 2],
      [symbol |-> "F", face |-> 1, opposite |-> 3, op |-> "rotate_z", slice |-> 0],
      [symbol |-> "B", face |-> 3, opposite |-> 1, op |-> "rotate_z", slice |-> 2] }

\* grid is `from` with the face of the move turned as spin says, with nothing
\* changed outside that face and the four strips of the slice next to it, and
\* so with the opposite face unchanged.
FaceTurned(from, grid, move, spin) ==
    /\ grid[move.face] = Turned(from[move.face], spin)
    /\ grid[move.opposite] = from[move.opposite]
    /\ \A face \in Faces \ {move.face}, r \in Idx(size), c \in Idx(size) :
            <<face, r, c>> \notin Strips(move.op, move.slice)
                => grid[face][r][c] = from[face][r][c]

\* C12: from every reachable state of the simulator, each of U, D, L, R, F, B
\* turns its own face (Top, Bottom, Left, Right, Front, Back) clockwise,
\* new[r][c] = old[2-c][r], and its prime turns it anticlockwise; besides the
\* face only the strips of the slice next to it change, so the opposite face
\* is unchanged and F and B act on different slices.
C12_FaceMovesTurnTheirFace ==
    \A move \in FaceMoves :
        LET plain == performed(<<move.symbol>>)
            primed == performed(<<move.symbol, "'">>)
        IN  /\ plain.err = "" /\ FaceTurned(cube, plain.cube, move, "CLOCKWISE")
            /\ primed.err = "" /\ FaceTurned(cube, primed.cube, move, "ANTICLOCKWISE")

\* A scrambled grid on which, for each face move, the clockwise and the
\* anticlockwise turn of its face differ from each other and from the face as
\* it is, the move changes a strip of the slice next to the face, and F and B
\* give different grids.
C12_Witness ==
    /\ last.op = "perform_moves" /\ err = "" /\ cube # Solved
    /\ performed(<<"F">>).cube # performed(<<"B">>).cube
    /\ \A move \in FaceMoves :
        LET plain == performed(<<move.symbol>>).cube
        IN  /\ Turned(cube[move.face], "CLOCKWISE") # Turned(cube[move.face], "ANTICLOCKWISE")
            /\ Turned(cube[move.face], "CLOCKWISE") # cube[move.face]
            /\ plain[move.face] = Turned(cube[move.face], "CLOCKWISE")
            /\ plain[move.opposite] = cube[move.opposite]
            /\ \E square \in Strips(move.op, move.slice) :
                    plain[square[1]][square[2]][square[3]]
                        # cube[square[1]][square[2]][square[3]]

(***************************************************************************)
(* The patterns of the tests.                                              *)
(***************************************************************************)
\* The layout the tests expect of "M2E2S2" and of "MESMES".
CheckerboardLayout ==
    <<"G", "B", "G", "B", "G", "B", "G", "B", "G", "R", "O", "R", "O", "R", "O", "R", "O", "R",
      "B", "G", "B", "G", "B", "G", "B", "G", "B", "O", "R", "O", "R", "O", "R", "O", "R", "O",
      "W", "Y", "W", "Y", "W", "Y", "W", "Y", "W", "Y", "W", "Y", "W", "Y", "W", "Y", "W", "Y">>

\* The face opposite each face: Left and Right, Front and Back, Top and Bottom.
OppositeFace(face) ==
    CASE face = 0 -> 2 [] face = 2 -> 0
      [] face = 1 -> 3 [] face = 3 -> 1
      [] face = 4 -> 5 [] face = 5 -> 4

\* Every square has the colour of its face on a solved cube where row + column
\* is even, and that of the opposite face where it is odd.
Checkerboard(grid) ==
    \A face \in Faces, r \in Idx(SimSize), c \in Idx(SimSize) :
        grid[face][r][c] =
            IF (r + c) % 2 = 0
            THEN create_solved_cube(SimSize)[face][r][c]
            ELSE create_solved_cube(SimSize)[OppositeFace(face)][r][c]

CheckerboardMoves == {<<"M", "2", "E", "2", "S", "2">>, <<"M", "E", "S", "M", "E", "S">>}

\* C13: perform_moves of "M2E2S2" and of "MESMES" on a solved cube both go
\* through and leave the checkerboard: each square has its face's colour where
\* row + column is even and the opposite face's colour where it is odd, which
\* reads GBGBGBGBG ROROROROR BGBGBGBGB ORORORORO WYWYWYWYW YWYWYWYWY.
C13_Checkerboard ==
    (last.op = "perform_moves" /\ arg \in CheckerboardMoves /\ pre = Solved) =>
        /\ err = ""
        /\ Checkerboard(cube)
        /\ get_string_representation(cube, SimSize) = CheckerboardLayout
        /\ Cube_eq(SimSize, cube, SimSize, Cube_init(SimSize, CheckerboardLayout).cube)

\* "MESMES" was performed on a solved cube, changed it, and left the grid
\* "M2E2S2" leaves on a solved cube.
C13_Witness ==
    /\ last.op = "perform_moves" /\ pre = Solved /\ err = ""
    /\ arg = <<"M", "E", "S", "M", "E", "S">>
    /\ cube # Solved
    /\ Checkerboard(cube)
    /\ perform_moves(Solved, <<>>, <<"M", "2", "E", "2", "S", "2">>, TRUE).cube = cube

\* The "Cube in the cube" pattern of the tests and the layout they expect.
CubeInTheCubeMoves ==
    <<"F", " ", "L", " ", "F", " ", "U", "'", " ", "R", " ", "U", " ", "F", "2", " ", "L", "2",
      " ", "U", "'", " ", "L", "'", " ", "B", " ", "D", "'", " ", "B", "'", " ", "L", "2", " ",
      "U">>

CubeInTheCubeLayout ==
    <<"Y", "Y", "Y", "G", "G", "Y", "G", "G", "Y", "B", "R", "R", "B", "R", "R", "B", "B", "B",
      "B", "B", "W", "B", "B", "W", "W", "W", "W", "G", "G", "G", "G", "O", "O", "G", "O", "O",
      "R", "R", "R", "R", "W", "W", "R", "W", "W", "O", "O", "O", "Y", "Y", "O", "Y", "Y", "O">>

\* C14: perform_moves of "F L F U' R U F2 L2 U' L' B D' B' L2 U" on a solved
\* cube goes through and leaves the layout YYYGGYGGY BRRBRRBBB BBWBBWWWW
\* GGGGOOGOO RRRRWWRWW OOOYYOYYO, faces 0 to 5 row by row.
C14_CubeInTheCube ==
    (last.op = "perform_moves" /\ arg = CubeInTheCubeMoves /\ pre = Solved) =>
        /\ err = ""
        /\ get_string_representation(cube, SimSize) = CubeInTheCubeLayout
        /\ Cube_eq(SimSize, cube, SimSize, Cube_init(SimSize, CubeInTheCubeLayout).cube)

\* The pattern was performed on a solved cube and recorded as its 15 moves.
C14_Witness ==
    /\ last.op = "perform_moves" /\ arg = CubeInTheCubeMoves /\ pre = Solved
    /\ err = ""
    /\ cube # Solved
    /\ get_string_representation(cube, SimSize) = CubeInTheCubeLayout
    /\ Len(moves_history) = 1 /\ Len(moves_history[1]) = 15

(***************************************************************************)
(* The order in which perform_moves makes the moves of a string.           *)
(***************************************************************************)
\* The tokens of a string of moves without whitespace, first to last: a
\* letter with the modifier that follows it, if one does.
RECURSIVE TokensFrom(_, _)
TokensFrom(string, i) ==
    IF i > Len(string)
    THEN <<>>
    ELSE LET length == IF i < Len(string) /\ string[i + 1] \in {"2", "'"} THEN 2 ELSE 1
         IN  <<SubSeq(string, i, i + length - 1)>> \o TokensFrom(string, i + length)

Tokens(moves_string) == TokensFrom(remove_whitespace(moves_string), 1)

\* The rotations of one token: the move once, its prime once, or the move twice.
TokenCalls(token) ==
    IF Len(token) = 1 THEN moves(token[1], FALSE)
    ELSE IF token[2] = "'" THEN moves(token[1], TRUE)
    ELSE moves(token[1], FALSE) \o moves(token[1], FALSE)

\* The grid after the tokens, each applied once, first to last (no grid stays
\* no grid).
RECURSIVE AppliedInOrder(_, _)
AppliedInOrder(grid, tokens) ==
    IF grid = NoCube \/ tokens = <<>>
    THEN grid
    ELSE AppliedInOrder(rotations(grid, TokenCalls(Head(tokens))), Tail(tokens))

Reversed(tokens) == [i \in 1..Len(tokens) |-> tokens[Len(tokens) + 1 - i]]

\* C15: after every perform_moves that went through, the grid is the one the
\* call started from with the tokens of the string applied first to last, each
\* once: the move twice for a letter followed by "2", its prime for a letter
\* followed by "'", the plain move for a letter followed by a letter or by the
\* end of the string.
C15_TokensInOrder ==
    (last.op = "perform_moves" /\ err = "") => cube = AppliedInOrder(pre, Tokens(arg))

\* A string with a doubled, a primed, a plain move before a letter and a plain
\* move at its end was performed on a scrambled grid; its tokens in the
\* opposite order give another grid.
C15_Witness ==
    /\ last.op = "perform_moves" /\ err = "" /\ pre # Solved
    /\ LET tokens == Tokens(arg)
       IN  /\ \E i, j, k \in 1..(Len(tokens) - 1) :
                /\ Len(tokens[i]) = 2 /\ tokens[i][2] = "2"
                /\ Len(tokens[j]) = 2 /\ tokens[j][2] = "'"
                /\ Len(tokens[k]) = 1
           /\ Len(tokens[Len(tokens)]) = 1
           /\ cube = AppliedInOrder(pre, tokens)
           /\ cube # AppliedInOrder(pre, Reversed(tokens))
           /\ cube # pre

(***************************************************************************)
(* The strings perform_moves rejects.                                      *)
(***************************************************************************)
\* The message of the ValueError for a modifier with no move stored before it
\* (DanglingModifier in the specification).
DanglingModifier(modifier) ==
    IF modifier = "2"
    THEN "Typed 2 with nothing/invalid value before it"
    ELSE "Typed ' with nothing/invalid value before it"

ModifierChars == {"2", "'"}

\* C16: from every reachable state, a modifier at the start of the string
\* fails with the message of that modifier and leaves the grid alone, and a
\* modifier right after a modifier fails after the move before it was made
\* with the first modifier: "U2'" makes U twice and fails on "'", "U'2" makes
\* U' and fails on "2".  The history is as before.
C16_DanglingModifier ==
    /\ \A first \in ModifierChars :
        /\ performed(<<first>>).err = DanglingModifier(first)
        /\ performed(<<first>>).cube = cube
        /\ performed(<<first, "U">>).err = DanglingModifier(first)
        /\ performed(<<first, "U">>).cube = cube
    /\ \A i \in 1..Len(MoveSymbols) : \A first \in ModifierChars, second \in ModifierChars :
        LET done == performed(<<MoveSymbols[i], first, second>>)
        IN  /\ done.err = DanglingModifier(second)
            /\ done.cube = AppliedInOrder(cube, <<(<<MoveSymbols[i], first>>)>>)
            /\ done.moves_history = moves_history
    /\ (last.op = "perform_moves" /\ arg = <<"U", "2", "'">>) =>
            /\ err = DanglingModifier("'")
            /\ cube = rotations(pre, moves("U", FALSE) \o moves("U", FALSE))

\* "U2'" was performed on a scrambled grid: it failed on "'" and left the grid
\* with U made twice, which is not the grid before the call nor that with U
\* made once.
C16_Witness ==
    /\ last.op = "perform_moves" /\ arg = <<"U", "2", "'">>
    /\ err = DanglingModifier("'")
    /\ pre # Solved
    /\ cube = rotations(pre, moves("U", FALSE) \o moves("U", FALSE))
    /\ cube # pre
    /\ cube # rotations(pre, moves("U", FALSE))
    /\ performed(<<"U", "'", "2">>).err = DanglingModifier("2")
    /\ performed(<<"U", "'", "2">>).cube = rotations(cube, moves("U", TRUE))

\* The message of the ValueError for a character that is not a key of
\* self._moves (UnknownMoveSymbol in the specification).
UnknownMoveSymbol == "Invalid character"

\* Characters that are neither whitespace, nor modifiers, nor symbols of the
\* 3x3 notation.
OtherChars == {"Q", "m", "3", "-"}

\* C17: from every reachable state, a character that is neither whitespace,
\* nor a modifier, nor a symbol fails with UnknownMoveSymbol wherever it is: at
\* the start, before a move, after a plain, a doubled or a primed move, after
\* whitespace, in the middle; and no perform_moves of a string with such a
\* character goes through.
C17_UnknownMoveSymbol ==
    /\ \A char \in OtherChars :
        \A moves_string \in { <<char>>, <<char, "U">>, <<"U", char>>, <<"U", "2", char>>,
                              <<"U", "'", char, "R">>, <<"R", " ", char, " ", "U">> } :
            performed(moves_string).err = UnknownMoveSymbol
    /\ (/\ last.op = "perform_moves"
        /\ \E i \in 1..Len(arg) :
                arg[i] \notin get_moves \cup ModifierChars \cup {" ", "\t"})
            => err # ""
    /\ (last.op = "perform_moves" /\ arg = <<"R", " ", "U", " ", "Q">>)
            => err = UnknownMoveSymbol

\* "R U Q" was performed, recorded or not, and failed on Q.
C17_Witness ==
    /\ last.op = "perform_moves" /\ arg = <<"R", " ", "U", " ", "Q">>
    /\ err = UnknownMoveSymbol
    /\ pre # Solved /\ cube # pre
    /\ performed(<<"Q">>).err = UnknownMoveSymbol

\* The first character of a string without whitespace that perform_moves
\* cannot take: one that is neither a symbol nor a modifier, or a modifier
\* that does not follow a symbol.
Offends(string, i) ==
    \/ string[i] \notin get_moves \cup ModifierChars
    \/ string[i] \in ModifierChars /\ (i = 1 \/ string[i - 1] \notin get_moves)

FirstOffence(string) ==
    CHOOSE i \in 1..Len(string) :
        Offends(string, i) /\ \A j \in 1..(i - 1) : ~Offends(string, j)

\* The tokens before the offending character.
TokensBeforeOffence(moves_string) ==
    LET string == remove_whitespace(moves_string)
    IN  TokensFrom(SubSeq(string, 1, FirstOffence(string) - 1), 1)

FailingStrings ==
    { <<"U", "2", "'">>,
      <<"R", " ", "U", " ", "Q">>,
      <<"R", "U", "R", "'", "U", "'", "2", "'", "F">>,
      <<"M", "2", " ", "E", "2", " ", "S", "2", " ", "x", "3">>,
      <<"'", "R">>,
      <<"F", " ", "L", "'", " ", "m", " ", "B">>,
      <<"u", "'", "2", " ", "d">> }

\* C18: a perform_moves that fails leaves the grid it started from with the
\* tokens before the offending character applied first to last (a letter
\* stored when an unknown character comes counts as a plain token), and
\* appends nothing to the history: so for every failing call explored, and
\* from every reachable state for each of the failing strings.
C18_PartialApplication ==
    /\ (last.op = "perform_moves" /\ err # "") =>
            /\ cube = AppliedInOrder(pre, TokensBeforeOffence(arg))
            /\ last.index = 0
    /\ \A moves_string \in FailingStrings :
        LET done == performed(moves_string)
        IN  /\ done.err # ""
            /\ done.cube = AppliedInOrder(cube, TokensBeforeOffence(moves_string))
            /\ done.moves_history = moves_history

\* "R U Q" failed on a scrambled grid with a history: R and U were made, and
\* the history is as it was.
C18_Witness ==
    /\ last.op = "perform_moves" /\ arg = <<"R", " ", "U", " ", "Q">>
    /\ err # "" /\ last.index = 0
    /\ pre # Solved /\ cube # pre
    /\ cube = AppliedInOrder(pre, <<(<<"R">>), (<<"U">>)>>)
    /\ cube # AppliedInOrder(pre, <<(<<"R">>)>>)
    /\ Len(moves_history) = 1

(***************************************************************************)
(* The history.                                                            *)
(***************************************************************************)
\* The characters of the tokens, one token after the other.
RECURSIVE Concatenated(_)
Concatenated(tokens) ==
    IF tokens = <<>> THEN <<>> ELSE Head(tokens) \o Concatenated(Tail(tokens))

\* Strings of at least one move that perform_moves takes.
TokenStrings ==
    { <<"U">>,
      <<"R", "U", "R", "'", "U", "'">>,
      <<"M", "2", "E", "2", "S", "2">>,
      <<" ", "x", " ", "y", "'", " ", "z", "2", " ">>,
      <<"u", "\t", "d", "'", " ", "l", "2">> }

\* The empty string and strings of whitespace only.
BlankStrings ==
    { <<>>,
      <<" ">>,
      <<"\t", " ">> }

\* C19: from every reachable state, a perform_moves with record set that goes
\* through and has at least one token appends one entry to the history, the
\* list of its tokens in order, whose characters are the string without its
\* whitespace; with record=False, with an empty or blank string, or when it
\* fails, it leaves the history as it was.  Every explored call that appended
\* went through and appended the tokens of its string.
C19_Recording ==
    /\ \A moves_string \in TokenStrings :
        /\ performed(moves_string).err = ""
        /\ performed(moves_string).moves_history
                = Append(moves_history, Tokens(moves_string))
        /\ Tokens(moves_string) # <<>>
        /\ Concatenated(Tokens(moves_string)) = remove_whitespace(moves_string)
        /\ perform_moves(cube, moves_history, moves_string, FALSE).err = ""
        /\ perform_moves(cube, moves_history, moves_string, FALSE).moves_history
                = moves_history
    /\ \A moves_string \in BlankStrings :
        /\ performed(moves_string).err = ""
        /\ performed(moves_string).moves_history = moves_history
    /\ \A moves_string \in FailingStrings :
        /\ performed(moves_string).err # ""
        /\ performed(moves_string).moves_history = moves_history
    /\ (last.op = "perform_moves" /\ last.index = 1) =>
        /\ err = ""
        /\ moves_history # <<>>
        /\ moves_history[Len(moves_history)] = Tokens(arg)
        /\ Concatenated(moves_history[Len(moves_history)]) = remove_whitespace(arg)
    /\ (last.op = "perform_moves" /\ (err # "" \/ Tokens(arg) = <<>>)) => last.index = 0

\* A string with whitespace was performed and recorded as the second entry of
\* the history: the entry is the list of its tokens, without the whitespace.
C19_Witness ==
    /\ last.op = "perform_moves" /\ last.index = 1 /\ err = ""
    /\ Len(moves_history) = 2
    /\ moves_history[2] = Tokens(arg)
    /\ Len(moves_history[2]) > 1
    /\ arg # remove_whitespace(arg)
    /\ Concatenated(moves_history[2]) = remove_whitespace(arg)
    /\ perform_moves(cube, moves_history, arg, FALSE).moves_history = moves_history

\* The inverse of a token: plain and primed exchanged, doubled as it is.
Flipped(token) ==
    IF Len(token) = 1 THEN <<token[1], "'">>
    ELSE IF token[2] = "'" THEN <<token[1]>>
    ELSE token

\* The inverse of a recorded sequence, as a string: the inverses of its moves,
\* last to first.
InverseString(entry) ==
    Concatenated([i \in 1..Len(entry) |-> Flipped(entry[Len(entry) + 1 - i])])

\* C20: from every reachable state with a history that is not empty,
\* undo_moves_sequence goes through, removes the last entry of the history and
\* leaves the others as they were, appends nothing, makes the moves of the
\* inverse of that entry on the grid and returns that inverse; every explored
\* undo that went through left the grid with the moves of the string it
\* returned.
C20_UndoPopsAndReplays ==
    /\ moves_history # <<>> =>
        LET undone == undo_moves_sequence(cube, moves_history)
            entry == moves_history[Len(moves_history)]
        IN  /\ undone.err = ""
            /\ undone.moves_history = SubSeq(moves_history, 1, Len(moves_history) - 1)
            /\ Len(undone.moves_history) = Len(moves_history) - 1
            /\ undone.returned = InverseString(entry)
            /\ undone.cube = AppliedInOrder(cube, Tokens(InverseString(entry)))
    /\ (last.op = "undo_moves_sequence" /\ err = "") =>
            cube = AppliedInOrder(pre, Tokens(arg))

\* An undo returned a string of moves and changed the grid with them; one
\* entry is left in the history, the older of two, and one more undo leaves
\* none.
C20_Witness ==
    /\ last.op = "undo_moves_sequence" /\ err = ""
    /\ arg # <<>>
    /\ cube # pre
    /\ cube = AppliedInOrder(pre, Tokens(arg))
    /\ Len(moves_history) = 1
    /\ undo_moves_sequence(cube, moves_history).moves_history = <<>>
    /\ undo_moves_sequence(cube, moves_history).returned = InverseString(moves_history[1])
    /\ Len(moves_history[1]) > 2

(***************************************************************************)
(* C21: undo with nothing recorded.                                        *)
(***************************************************************************)
\* The ValueError undo_moves_sequence raises when the history is empty.
EmptyHistory == "No moves sequence to undo."

\* C21: undo_moves_sequence on an empty history fails with EmptyHistory, and
\* the failure reaches the caller (it is the outcome of the call, not
\* something replaced by a successful return); the cube and the empty history
\* are left as they were.  Conversely, an undo that ended with EmptyHistory
\* left the grid it found and an empty history.
C21_EmptyHistoryUndo ==
    /\ moves_history = <<>> =>
          LET done == undo_moves_sequence(cube, moves_history)
          IN  /\ done.err = EmptyHistory
              /\ done.cube = cube
              /\ done.moves_history = <<>>
              /\ done.returned = <<>>
    /\ moves_history # <<>> =>
          undo_moves_sequence(cube, moves_history).err # EmptyHistory
    /\ (last.op = "undo_moves_sequence" /\ err = EmptyHistory) =>
          cube = pre /\ moves_history = <<>>

\* An undo has failed with EmptyHistory on a cube that is not solved (moved
\* without recording), and the cube is still the one the undo found.
C21_Witness ==
    /\ last.op = "undo_moves_sequence"
    /\ err = EmptyHistory
    /\ moves_history = <<>>
    /\ cube = pre
    /\ cube # create_solved_cube(SimSize)

(***************************************************************************)
(* The console game driving the simulator: moves typed in, scramble, undo  *)
(* and reset.                                                              *)
(***************************************************************************)
SCRAMBLE_MOVE_COUNT == 22

\* The list random.choice picks a modifier from.
ScrambleModifiers == << <<>>, <<"'">>, <<"2">> >>

\* How many outcomes of the random picks of one scramble are explored.
MaxSeed == 3

\* One outcome of the 2 * SCRAMBLE_MOVE_COUNT calls of random.choice: for each
\* round a key of self._moves and a modifier.
RandomPicks(seed) ==
    [i \in 1..SCRAMBLE_MOVE_COUNT |->
        [move |-> MoveSymbols[((seed * i * i + 3 * seed + i) % Len(MoveSymbols)) + 1],
         modifier |-> ScrambleModifiers[((seed + i * seed + (i \div 3)) % 3) + 1]]]

\* The string the loop of _scramble builds from the picks of rounds i and on.
RECURSIVE scramble_sequence(_, _)
scramble_sequence(picks, i) ==
    IF i > Len(picks)
    THEN <<>>
    ELSE <<picks[i].move>> \o picks[i].modifier \o scramble_sequence(picks, i + 1)

\* _scramble with the record keyword left at its default.
scramble_recorded(cb, history, picks) ==
    perform_moves(cb, history, scramble_sequence(picks, 1), TRUE)

\* [cube, err, moves_history]
scramble(cb, history, picks) ==
    perform_moves(cb, history, scramble_sequence(picks, 1), FALSE)

\* In the log, arg is the scramble sequence and base the grid it started from.
Scramble(seed) ==
    LET done == scramble(cube, moves_history, RandomPicks(seed))
    IN  /\ steps < MaxSteps
        /\ cube' = done.cube
        /\ moves_history' = done.moves_history
        /\ err' = done.err
        /\ pre' = cube
        /\ base' = cube
        /\ arg' = scramble_sequence(RandomPicks(seed), 1)
        /\ last' = Call("scramble", 0, last.op)
        /\ steps' = steps + 1
        /\ UNCHANGED <<size, rep, repr, other, heap>>

\* What a player types in as moves: strings with and without whitespace, and
\* strings perform_moves rejects.
GameStrings ==
    { <<"R", "U", "R", "'", "U", "'">>,
      <<"R", " ", "U", "\t", "R", " ", "'", "U", " ", " ", "'", " ">>,
      <<"M", "2", "E", "2", "S", "2">>,
      <<"x", "y", "'", "Q", "z">>,
      <<"F", "2", "2">>,
      <<" ">> }

NextGame ==
    \/ \E moves_string \in GameStrings : PerformMoves(moves_string, TRUE)
    \/ \E seed \in 1..MaxSeed : Scramble(seed)
    \/ UndoMovesSequence
    \/ ResetCube

SpecGame == InitSim /\ [][NextGame]_vars

\* C22: a scramble makes SCRAMBLE_MOVE_COUNT (22) tokens, each a symbol of the
\* simulator followed by nothing, by ' or by 2, and applies them first to last
\* without recording: from every reachable state and for every outcome of the
\* picks the call goes through and leaves the history as it was, and after a
\* scramble the grid is the one it started from with the 22 tokens applied.
C22_Scramble ==
    /\ \A seed \in 1..MaxSeed :
          LET picks == RandomPicks(seed)
              done == scramble(cube, moves_history, picks)
              tokens == Tokens(scramble_sequence(picks, 1))
          IN  /\ Len(picks) = 22
              /\ Len(tokens) = 22
              /\ \A i \in 1..22 :
                    /\ tokens[i] = <<picks[i].move>> \o picks[i].modifier
                    /\ picks[i].move \in get_moves
                    /\ picks[i].modifier \in Modifiers
              /\ done.err = ""
              /\ done.moves_history = moves_history
    /\ last.op = "scramble" =>
          /\ err = ""
          /\ Len(Tokens(arg)) = 22
          /\ cube = AppliedInOrder(pre, Tokens(arg))

\* A scramble has run on a simulator with a recorded sequence: the history
\* still holds that one entry, and the 22 tokens carry each of the three
\* modifiers.
C22_Witness ==
    /\ last.op = "scramble"
    /\ last.direction = "perform_moves"
    /\ Len(moves_history) = 1
    /\ err = ""
    /\ cube # pre
    /\ Len(Tokens(arg)) = 22
    /\ \A modifier \in Modifiers :
          \E i \in 1..22 : SubSeq(Tokens(arg)[i], 2, Len(Tokens(arg)[i])) = modifier

\* C23: whatever came before it (recorded moves, undos, scrambles, calls that
\* failed), reset_cube leaves the solved cube and an empty history: this holds
\* of the call made from every reachable state and of the state after every
\* reset, and an undo made directly after a reset fails with EmptyHistory and
\* leaves the solved cube.
C23_ResetCube ==
    /\ LET done == reset_cube(cube, moves_history)
       IN  /\ done.cube = create_solved_cube(SimSize)
           /\ done.moves_history = <<>>
           /\ undo_moves_sequence(done.cube, done.moves_history).err = EmptyHistory
    /\ last.op = "reset_cube" =>
          /\ cube = create_solved_cube(SimSize)
          /\ moves_history = <<>>
    /\ (last.op = "undo_moves_sequence" /\ last.direction = "reset_cube") =>
          /\ err = EmptyHistory
          /\ cube = create_solved_cube(SimSize)
          /\ moves_history = <<>>

\* A reset has been made on a cube that was not solved and had a recorded
\* sequence, directly after a call that failed or a scramble.
C23_Witness ==
    /\ last.op = "reset_cube"
    /\ last.index > 0
    /\ last.direction \in {"perform_moves", "scramble"}
    /\ pre # create_solved_cube(SimSize)
    /\ cube = create_solved_cube(SimSize)
    /\ moves_history = <<>>

(***************************************************************************)
(* Reset of the cube.                                                      *)
(***************************************************************************)
\* C24: reset() leaves the solved layout whatever the cube held before it (a
\* layout reached by rotations or one built from a string): from every
\* reachable state it gives the cube that Cube(size) constructs for the same
\* size, and after every reset the cube is equal to that cube, each square of
\* face i carrying the i-th colour.
C24_ResetRestoresSolved ==
    /\ Cube_eq(size, reset(size), size, Cube_init(size, <<>>).cube)
    /\ last.op = "reset" =>
          /\ err = ""
          /\ Cube_eq(size, cube, size, Cube_init(size, <<>>).cube)
          /\ \A face \in Faces : \A row, column \in Idx(size) :
                cube[face][row][column] = ColourOrder[face + 1]

\* A reset has been made on a 2x2 cube that a rotation had taken to a layout
\* that is neither the solved one nor the one of the fixture.
C24_Witness ==
    /\ last.op = "reset"
    /\ steps = MaxSteps
    /\ pre # create_solved_cube(size)
    /\ \E f \in Fixtures : f.size = size /\ pre # Cube_init(size, f.string_repr).cube
    /\ cube = create_solved_cube(size)
    /\ size = 2

(***************************************************************************)
(* Construction and reading of a cube: a client constructs cubes, solved   *)
(* or from strings of any length and content, and reads squares, rows and  *)
(* columns with any indices.                                               *)
(***************************************************************************)
\* Python's list indexing: an index from 0 to length-1 counts from the front
\* and one from -length to -1 from the end; any other raises IndexError (-1
\* here).
list_index(length, i) ==
    IF 0 <= i /\ i < length THEN i
    ELSE IF -length <= i /\ i < 0 THEN length + i
    ELSE -1

\* The read accessors as a client calls them, with any integers:
\* [err, value], value being the list of what is returned.
get_square_at(cb, n, face, row, column) ==
    LET f == list_index(FACES_IN_A_CUBE, face)
        r == list_index(n, row)
        c == list_index(n, column)
    IN  IF f < 0 \/ r < 0 \/ c < 0
        THEN [err |-> "IndexError", value |-> <<>>]
        ELSE [err |-> "", value |-> <<get_square(cb, f, r, c)>>]

get_row_at(cb, n, face, row) ==
    LET f == list_index(FACES_IN_A_CUBE, face)
        r == list_index(n, row)
    IN  IF f < 0 \/ r < 0
        THEN [err |-> "IndexError", value |-> <<>>]
        ELSE [err |-> "", value |-> [i \in 1..n |-> get_row(cb, f, r)[i - 1]]]

get_column_at(cb, n, face, column) ==
    LET f == list_index(FACES_IN_A_CUBE, face)
        c == list_index(n, column)
    IN  IF f < 0 \/ c < 0
        THEN [err |-> "IndexError", value |-> <<>>]
        ELSE [err |-> "", value |-> [i \in 1..n |-> get_column(cb, n, f, c)[i - 1]]]

\* The sizes a client passes: the valid ones, 0 and a negative one.
Sizes == (-1)..MaxSize

CodeOrder == <<"G", "R", "B", "O", "W", "Y">>

\* The string of the solved cube of size n and a string of mixed colours of
\* the same length.
SolvedString(n) ==
    [i \in 1..(FACES_IN_A_CUBE * n * n) |-> CodeOrder[((i - 1) \div (n * n)) + 1]]

MixedString(n) ==
    [i \in 1..(FACES_IN_A_CUBE * n * n) |-> CodeOrder[((i * i + (i \div 2)) % 6) + 1]]

\* The strings a client passes with size n: none, strings of the right
\* length, one square short, one or more characters long, and strings with a
\* character that is no colour code at the front, in the middle, at the end
\* or past the end.
StringsOf(n) ==
    IF n <= 0
    THEN {<<>>, SolvedString(1)}
    ELSE
    LET total == FACES_IN_A_CUBE * n * n
        mixed == MixedString(n)
    IN  { <<>>,
          SolvedString(n),
          mixed,
          SubSeq(mixed, 1, total - 1),
          mixed \o <<"G">>,
          mixed \o <<"?", "W">>,
          [mixed EXCEPT ![1] = "g"],
          [mixed EXCEPT ![(total \div 2) + 1] = " "],
          [mixed EXCEPT ![total] = "X"],
          SubSeq([mixed EXCEPT ![2] = "X"], 1, total - 1) }

InitBuild ==
    /\ size = 0
    /\ cube = NoCube
    /\ err = ""
    /\ moves_history = <<>>
    /\ last = NoCall
    /\ arg = <<>>
    /\ pre = NoCube
    /\ base = NoCube
    /\ rep = 0
    /\ steps = 0
    /\ repr = <<>>
    /\ other = NoCube
    /\ heap = NoHeap

\* cube = Cube(n, string_repr=s): when the constructor raises, the client is
\* left with the cube it had (none at first).  arg is the string given.
Construct(n, s) ==
    LET done == Cube_init(n, s)
    IN  /\ steps < MaxSteps
        /\ IF done.err = ""
           THEN size' = n /\ cube' = done.cube
           ELSE UNCHANGED <<size, cube>>
        /\ err' = done.err
        /\ pre' = cube
        /\ arg' = s
        /\ last' = Call("Cube", n, "")
        /\ steps' = steps + 1
        /\ UNCHANGED <<moves_history, base, rep, repr, other, heap>>

\* other = Cube.create_cube_from_string_representation(n, s), the static
\* method called on its own; other is no grid when it raises.
CreateFromString(n, s) ==
    LET done == create_cube_from_string_representation(n, s)
    IN  /\ other' = done.cube
        /\ err' = done.err
        /\ pre' = cube
        /\ arg' = s
        /\ last' = Call("create_cube_from_string_representation", n, "")
        /\ UNCHANGED <<size, cube, moves_history, base, rep, steps, repr, heap>>

\* A read of the cube the client holds.  arg is the tuple of the indices
\* given and repr the list of what was returned (empty when it raised).
Read(op, indices, result) ==
    /\ cube # NoCube
    /\ repr' = result.value
    /\ err' = result.err
    /\ pre' = cube
    /\ arg' = indices
    /\ last' = Call(op, 0, "")
    /\ UNCHANGED <<size, cube, moves_history, base, rep, steps, other, heap>>

GetSquare(face, row, column) ==
    Read("get_square", <<face, row, column>>, get_square_at(cube, size, face, row, column))

GetRow(face, row) ==
    Read("get_row", <<face, row>>, get_row_at(cube, size, face, row))

GetColumn(face, column) ==
    Read("get_column", <<face, column>>, get_column_at(cube, size, face, column))

\* The indices a client reads with: the valid ones, the negative ones that
\* count from the end, and one past each of the two.
FaceIndices == {-(FACES_IN_A_CUBE + 1), -FACES_IN_A_CUBE, -1, 0, FACES_IN_A_CUBE - 1, FACES_IN_A_CUBE}

SquareIndices == (-(size + 1))..size

NextBuild ==
    \/ \E n \in Sizes : \E s \in StringsOf(n) : Construct(n, s)
    \/ \E n \in Sizes : \E s \in StringsOf(n) : CreateFromString(n, s)

SpecBuild == InitBuild /\ [][NextBuild]_vars

\* The reads are made on a cube of any size up to MaxSize, solved or of mixed
\* colours.
InitRead ==
    \E n \in 1..MaxSize : \E s \in {<<>>, MixedString(n)} :
        /\ size = n
        /\ cube = Cube_init(n, s).cube
        /\ err = ""
        /\ moves_history = <<>>
        /\ last = NoCall
        /\ arg = <<>>
        /\ pre = NoCube
        /\ base = NoCube
        /\ rep = 0
        /\ steps = 0
        /\ repr = <<>>
        /\ other = NoCube
        /\ heap = NoHeap

NextRead ==
    \/ \E face \in FaceIndices : \E row, column \in SquareIndices : GetSquare(face, row, column)
    \/ \E face \in FaceIndices : \E row \in SquareIndices : GetRow(face, row)
    \/ \E face \in FaceIndices : \E column \in SquareIndices : GetColumn(face, column)

SpecRead == InitRead /\ [][NextRead]_vars

\* The ValueError Cube.__init__ raises for a size that is not positive.
InvalidSize == "Invalid size"

\* The colour of each face of the solved cube.
FaceColour(face) ==
    CASE face = 0 -> "GREEN"
      [] face = 1 -> "RED"
      [] face = 2 -> "BLUE"
      [] face = 3 -> "ORANGE"
      [] face = 4 -> "WHITE"
      [] face = 5 -> "YELLOW"

\* C25: Cube(size) with size >= 1 and no string goes through and gives a cube
\* of that size with 6 faces of size rows of size squares, every square of
\* face 0 GREEN, of face 1 RED, of face 2 BLUE, of face 3 ORANGE, of face 4
\* WHITE and of face 5 YELLOW; with size <= 0 (whatever the string) it fails
\* with InvalidSize and gives no cube: the client holds what it held before.
C25_CreateSolved ==
    /\ (last.op = "Cube" /\ last.index >= 1 /\ arg = <<>>) =>
          /\ err = ""
          /\ size = last.index
          /\ DOMAIN cube = 0..5
          /\ \A face \in 0..5 :
                /\ DOMAIN cube[face] = 0..(size - 1)
                /\ \A row \in 0..(size - 1) :
                      /\ DOMAIN cube[face][row] = 0..(size - 1)
                      /\ \A column \in 0..(size - 1) :
                            cube[face][row][column] = FaceColour(face)
    /\ (last.op = "Cube" /\ last.index <= 0) =>
          /\ err = InvalidSize
          /\ cube = pre
          /\ (cube = NoCube) = (size = 0)

\* Cube(0) has failed with InvalidSize for a client that holds the solved 2x2
\* cube an earlier Cube(2) gave it, and still holds it.
C25_Witness ==
    /\ last.op = "Cube"
    /\ last.index = 0
    /\ arg = <<>>
    /\ err = InvalidSize
    /\ size = 2
    /\ cube = pre
    /\ \A face \in 0..5 : \A row, column \in 0..1 : cube[face][row][column] = FaceColour(face)

(***************************************************************************)
(* Rotations with an index that is not a slice.                            *)
(***************************************************************************)
\* The ValueError of a rotation for an index outside 1..size.
InvalidIndex(op) == IF op = "rotate_y" THEN "Invalid row" ELSE "Invalid column"

\* Indices outside 1..size, on both sides, zero and negative ones included.
BadIndices == {-size, -1, 0, size + 1, size + 2}

\* C26: rotate_x, rotate_y and rotate_z fail with InvalidIndex for an index
\* outside 1..size (0, negative, size+1 and beyond) and then leave the cube
\* exactly as it was; with an index inside 1..size they do not fail.  This
\* holds of the calls made from every reachable state and of the state after
\* every call.
C26_InvalidIndex ==
    /\ \A op \in Rotations : \A direction \in (IF op = "rotate_y" THEN RowMove ELSE ColumnMove) :
          /\ \A index \in BadIndices :
                LET done == rotate(cube, size, op, index, direction)
                IN  done.err = InvalidIndex(op) /\ done.cube = cube
          /\ \A index \in 1..size :
                rotate(cube, size, op, index, direction).err = ""
    /\ last.op \in Rotations =>
          IF last.index \in 1..size
          THEN err = ""
          ELSE err = InvalidIndex(last.op) /\ cube = pre

\* A rotate_z with index size+1 has failed on a cube whose face 1 is not of
\* one colour, and has left the cube as it was.
C26_Witness ==
    /\ last.op = "rotate_z"
    /\ last.index = size + 1
    /\ err = "Invalid column"
    /\ cube = pre
    /\ cube # create_solved_cube(size)
    /\ rotate_face(cube, size, 1, "CLOCKWISE") # cube

(***************************************************************************)
(* Cubes from strings.                                                     *)
(***************************************************************************)
\* C27 (as stated): create_cube_from_string_representation(size, s) with
\* size >= 1 fails, and gives no grid, whenever the length of s is not
\* 6*size*size: too short, too long or empty.  Any failure is taken for
\* InvalidStringLength here.
C27_AsStated ==
    (/\ last.op = "create_cube_from_string_representation"
     /\ last.index >= 1
     /\ Len(arg) # 6 * last.index * last.index)
        => (err # "" /\ other = NoCube)

\* The ValueError get_colour_from_string raises.
InvalidColourCode == "Invalid string"

\* The colour each code stands for.
CodeColour(code) ==
    CASE code = "G" -> "GREEN"
      [] code = "R" -> "RED"
      [] code = "B" -> "BLUE"
      [] code = "O" -> "ORANGE"
      [] code = "W" -> "WHITE"
      [] code = "Y" -> "YELLOW"

\* The positions, from 1, of the characters of s that a cube of size n reads
\* (at most its first 6*n*n) and that are no colour code.
WrongCodes(n, s) ==
    {i \in 1..Len(s) : i <= 6 * n * n /\ s[i] \notin {"G", "R", "B", "O", "W", "Y"}}

\* C28: create_cube_from_string_representation(size, s) with size >= 1 fails
\* with InvalidColourCode, and gives no grid, when one of the characters it
\* reads is not G, R, B, O, W or Y, wherever it stands among them; when all
\* 6*size*size characters are there and are codes, it goes through and square
\* (face, row, column) carries the colour of character
\* face*size*size + row*size + column (counted from 0), with G = GREEN,
\* R = RED, B = BLUE, O = ORANGE, W = WHITE, Y = YELLOW.  The same holds of
\* Cube(size, string_repr=s) for a string that is not empty.
C28_ColourCodes ==
    (/\ last.op \in {"create_cube_from_string_representation", "Cube"}
     /\ last.index >= 1
     /\ arg # <<>>) =>
        LET n == last.index
            built == IF last.op = "Cube" THEN cube ELSE other
        IN  /\ WrongCodes(n, arg) # {} =>
                  /\ err = InvalidColourCode
                  /\ IF last.op = "Cube" THEN cube = pre ELSE other = NoCube
            /\ (WrongCodes(n, arg) = {} /\ Len(arg) >= 6 * n * n) =>
                  /\ err = ""
                  /\ DOMAIN built = 0..5
                  /\ \A face \in 0..5 : \A row, column \in 0..(n - 1) :
                        built[face][row][column] =
                            CodeColour(arg[face * n * n + row * n + column + 1])

\* The static method has failed with InvalidColourCode on a string for a 2x2
\* cube whose only wrong character is its last, the 24th.
C28_Witness ==
    /\ last.op = "create_cube_from_string_representation"
    /\ last.index = 2
    /\ Len(arg) = 24
    /\ WrongCodes(2, arg) = {24}
    /\ err = InvalidColourCode
    /\ other = NoCube

(***************************************************************************)
(* Reads with indices out of range.                                        *)
(***************************************************************************)
\* The last read was given a face outside 0..5 or a row or column outside
\* 0..size-1.
OutOfRange ==
    \/ arg[1] \notin 0..5
    \/ \E i \in 2..Len(arg) : arg[i] \notin 0..(size - 1)

\* C29 (as stated): get_square, get_row and get_column fail for every
\* argument out of range, negative ones included, and then return nothing and
\* leave the cube as it was.  Any failure is taken for IndexOutOfRange here.
C29_AsStated ==
    (last.op \in {"get_square", "get_row", "get_column"} /\ OutOfRange)
        => (err # "" /\ repr = <<>> /\ cube = pre)

(***************************************************************************)
(* Whitespace in a string of moves.                                        *)
(***************************************************************************)
\* Strings of moves without whitespace: ones perform_moves takes, with and
\* without modifiers, and ones it rejects part of the way.
BareStrings ==
    { <<"U", "'">>,
      <<"R", "U", "R", "'", "U", "'">>,
      <<"M", "2", "E", "2", "S", "2">>,
      <<"x", "y", "'", "Q", "z">>,
      <<"F", "2", "2">> }

\* Blanks and tabs to insert.
Gaps == { <<" ">>, <<"\t">>, <<"\t", " ">> }

\* string with gap put in after its first k characters, and with gap put in
\* everywhere: before each character and at the end.
InsertedAt(string, k, gap) ==
    SubSeq(string, 1, k) \o gap \o SubSeq(string, k + 1, Len(string))

RECURSIVE InsertedEverywhere(_, _)
InsertedEverywhere(string, gap) ==
    IF string = <<>>
    THEN gap
    ELSE gap \o <<Head(string)>> \o InsertedEverywhere(Tail(string), gap)

\* C30: blanks and tabs in a string of moves change nothing: from every
\* reachable state and for each string s without whitespace, perform_moves on
\* s with blanks or tabs inserted at any one place (between a letter and its
\* modifier included) or at every place ends as perform_moves on s does: the
\* same grid, the same history (the same entry appended, or none) and the same
\* outcome.
C30_WhitespaceIgnored ==
    \A string \in BareStrings :
        LET bare == performed(string)
        IN  \A gap \in Gaps :
              /\ performed(InsertedEverywhere(string, gap)) = bare
              /\ \A k \in 0..Len(string) :
                    performed(InsertedAt(string, k, gap)) = bare

\* perform_moves has taken "R U\tR 'U  ' ", with blanks between letters and
\* their modifiers, and has left the grid and the history entry of "RUR'U'".
C30_Witness ==
    /\ last.op = "perform_moves"
    /\ last.index = 1
    /\ err = ""
    /\ arg = <<"R", " ", "U", "\t", "R", " ", "'", "U", " ", " ", "'", " ">>
    /\ cube = perform_moves(base, <<>>, <<"R", "U", "R", "'", "U", "'">>, TRUE).cube
    /\ cube # base
    /\ moves_history[Len(moves_history)] = << <<"R">>, <<"U">>, <<"R", "'">>, <<"U", "'">> >>

(***************************************************************************)
(* The whole-cube moves.                                                   *)
(***************************************************************************)
\* The 3x3 cube whose face i is all of the i-th colour of the list.
Uniform(colours) ==
    [face \in Faces |-> [row \in Idx(SimSize) |-> [column \in Idx(SimSize) |->
        colours[face + 1]]]]

\* C31: on the solved 3x3 cube (Left GREEN, Front RED, Right BLUE, Back
\* ORANGE, Top WHITE, Bottom YELLOW), x, y and z each go through and leave
\* every face of one colour: x takes Front's colour to Top, Top's to Back,
\* Back's to Bottom and Bottom's to Front; y takes Front's to Left, Right's to
\* Front, Back's to Right and Left's to Back; z takes Top's to Right, Right's
\* to Bottom, Bottom's to Left and Left's to Top; the two other faces keep
\* theirs.
C31_WholeCubeMoves ==
    cube = create_solved_cube(SimSize) =>
        /\ performed(<<"x">>).err = ""
        /\ performed(<<"x">>).cube =
              Uniform(<<"GREEN", "YELLOW", "BLUE", "WHITE", "RED", "ORANGE">>)
        /\ performed(<<"y">>).err = ""
        /\ performed(<<"y">>).cube =
              Uniform(<<"RED", "BLUE", "ORANGE", "GREEN", "WHITE", "YELLOW">>)
        /\ performed(<<"z">>).err = ""
        /\ performed(<<"z">>).cube =
              Uniform(<<"YELLOW", "RED", "WHITE", "ORANGE", "GREEN", "BLUE">>)

\* The cube is solved again after moves were made and undone, so the three
\* moves are tried on a solved cube that is not the initial one.
C31_Witness ==
    /\ cube = create_solved_cube(SimSize)
    /\ last.op = "undo_moves_sequence"
    /\ err = ""
    /\ pre # cube
    /\ performed(<<"y">>).cube # cube

(***************************************************************************)
(* The inverse of a recorded sequence.                                     *)
(***************************************************************************)
\* C32: for every entry of the history in every reachable state, the inverse
\* get_inverse_sequence computes is the string of the entry's tokens in
\* reverse order, each flipped (m to m', m' to m, m2 as it is); perform_moves
\* takes that string without error, its tokens are as many as the entry's, and
\* the inverse of its tokens is the string of the entry, whose tokens are the
\* entry.
C32_InverseSequence ==
    \A k \in 1..Len(moves_history) :
        LET entry == moves_history[k]
            inverse == get_inverse_sequence(entry)
        IN  /\ inverse = InverseString(entry)
            /\ Len(Tokens(inverse)) = Len(entry)
            /\ \A i \in 1..Len(entry) :
                  Tokens(inverse)[i] = Flipped(entry[Len(entry) + 1 - i])
            /\ perform_moves(cube, moves_history, inverse, FALSE).err = ""
            /\ get_inverse_sequence(Tokens(inverse)) = Concatenated(entry)
            /\ Tokens(get_inverse_sequence(Tokens(inverse))) = entry

\* The history holds an entry with plain, primed and doubled moves; its
\* inverse differs from it and from its reverse.
C32_Witness ==
    \E k \in 1..Len(moves_history) :
        LET entry == moves_history[k]
        IN  /\ \E i \in 1..Len(entry) : Len(entry[i]) = 1
            /\ \E i \in 1..Len(entry) : Len(entry[i]) = 2 /\ entry[i][2] = "'"
            /\ \E i \in 1..Len(entry) : Len(entry[i]) = 2 /\ entry[i][2] = "2"
            /\ get_inverse_sequence(entry) # Concatenated(entry)
            /\ get_inverse_sequence(entry) # Concatenated(Reversed(entry))

(***************************************************************************)
(* Invariants of the grid.                                                 *)
(***************************************************************************)
\* A grid of 6 faces of n rows of n squares, each square one of the six
\* colours.
WellShaped(grid, n) ==
    /\ DOMAIN grid = 0..5
    /\ \A face \in 0..5 :
          /\ DOMAIN grid[face] = 0..(n - 1)
          /\ \A row \in 0..(n - 1) :
                /\ DOMAIN grid[face][row] = 0..(n - 1)
                /\ \A column \in 0..(n - 1) :
                      grid[face][row][column] \in
                          {"GREEN", "RED", "BLUE", "ORANGE", "WHITE", "YELLOW"}

\* C33: in every reachable state the cube has exactly 6 faces, every face
\* exactly size rows, every row exactly size squares and every square one of
\* the six colours, whether the cube was created solved, built from a string
\* or reset, and whatever rotations followed, failed ones included.
C33_Shape == WellShaped(cube, size)

\* A 3x3 cube has been through MaxSteps runs of calls, the last a rotation
\* of the first slice (which spins a face), and is not solved.
C33_Witness ==
    /\ steps = MaxSteps
    /\ last.op \in Rotations
    /\ last.index = 1
    /\ err = ""
    /\ size = 3
    /\ cube # create_solved_cube(size)
    /\ WellShaped(cube, 3)
    /\ ~WellShaped(cube, 2)

(***************************************************************************)
(* The storage of the rows.                                                *)
(***************************************************************************)
\* C34: in every state reachable from a created or reset cube by rotations,
\* the 6*size slots (face, row) refer to 6*size different row lists, although
\* rotate_y and rotate_z pass on the references get_row returns; no rotation
\* has read a square it had itself written before, and what the statements of
\* each rotation leave in the lists is the grid computed from the contents
\* before the call.
C34_NoAliasing ==
    /\ \A f1, f2 \in Faces : \A r1, r2 \in Idx(size) :
          <<f1, r1>> # <<f2, r2>> => heap.slot[f1][r1] # heap.slot[f2][r2]
    /\ ~heap.hazard
    /\ grid_of(heap, size) = cube
    /\ (last.op \in Rotations /\ err = "") =>
          grid_of(heap, size) = rotate(pre, size, last.op, last.index, last.direction).cube

\* A rotate_z DOWN of the first slice, which writes rows of faces 4 and 5 in
\* place after handing out their references, has run after another rotation
\* on a cube of mixed colours.
C34_Witness ==
    /\ last.op = "rotate_z"
    /\ last.direction = "DOWN"
    /\ last.index = 1
    /\ err = ""
    /\ steps = MaxSteps
    /\ size = 3
    /\ cube # pre
    /\ heap.spun = <<1>>
    /\ \E row \in Idx(size) : \E c1, c2 \in Idx(size) : cube[4][row][c1] # cube[4][row][c2]

(***************************************************************************)
(* The 1x1 cube.                                                           *)
(***************************************************************************)
\* The faces whose strips a rotation exchanges, in the order the squares
\* travel for UP and LEFT (for DOWN and RIGHT they travel the other way).
StripCycle(op) ==
    CASE op = "rotate_x" -> <<1, 4, 3, 5>>
      [] op = "rotate_y" -> <<1, 0, 3, 2>>
      [] op = "rotate_z" -> <<4, 0, 5, 2>>

\* On a 1x1 cube, the square of each strip face has gone to the next face of
\* the cycle (the previous one for DOWN and RIGHT) and the two axis faces
\* have kept theirs.
SingleSquaresCycled ==
    LET cycle == StripCycle(last.op)
        forward == last.direction \in {"UP", "LEFT"}
    IN  /\ \A k \in 1..4 :
              LET to == cycle[(k % 4) + 1]
              IN  IF forward
                  THEN cube[to] = pre[cycle[k]]
                  ELSE cube[cycle[k]] = pre[to]
        /\ \A i \in 1..2 : cube[AxisFaces(last.op)[i]] = pre[AxisFaces(last.op)[i]]

\* C35 (as stated): every rotation of a 1x1 cube that goes through spins both
\* faces on its axis, cycles the single squares of the four strip faces in
\* the direction of the call and leaves the colours of the two axis faces.
C35_AsStated ==
    (size = 1 /\ last.op \in Rotations /\ err = "") =>
        /\ \A i \in 1..2 : \E k \in 1..Len(heap.spun) : heap.spun[k] = AxisFaces(last.op)[i]
        /\ SingleSquaresCycled

\* What the rotations of a 1x1 cube do: _rotate_face is called once, on the
\* first face of the axis (Left, Top or Front), and the squares are as the
\* claim has them.
C35_OneFaceSpun ==
    (size = 1 /\ last.op \in Rotations /\ err = "") =>
        /\ heap.spun = <<SpinTable(last.op, "first", last.direction)[1]>>
        /\ SingleSquaresCycled

(***************************************************************************)
(* C36: the rotations permute the squares.                                 *)
(***************************************************************************)
\* The squares of a grid, as (face, row, column) triples.
Squares(n) == Faces \X Idx(n) \X Idx(n)

ColourCount(grid, n, colour) ==
    Cardinality({sq \in Squares(n) : grid[sq[1]][sq[2]][sq[3]] = colour})

\* C36: in every state reached from the solved cube by move strings (failed
\* and partially applied ones included), undos, scrambles and resets, and so
\* by the rotate_x / rotate_y / rotate_z calls they make, each of the six
\* colours is on exactly size * size squares.
C36_ColourCount ==
    \A colour \in Colour : ColourCount(cube, size, colour) = size * size

\* A failed move string has left the cube partially turned, away from the
\* cube before the call, and no face is of one colour any more.
C36_Witness ==
    /\ last.op = "perform_moves"
    /\ err # ""
    /\ cube # pre
    /\ \A face \in Faces : \E sq \in Squares(SimSize) :
          sq[1] = face /\ cube[sq[1]][sq[2]][sq[3]] # cube[face][1][1]

(***************************************************************************)
(* The simulator used with recorded move strings that go through, undos   *)
(* and resets only (src/run_tests.py:126-136 uses it so).                  *)
(***************************************************************************)
\* perform_moves(moves_string) with record left at its default, for a string
\* that raises nothing.
PerformRecorded(moves_string) ==
    /\ perform_moves(cube, moves_history, moves_string, TRUE).err = ""
    /\ PerformMoves(moves_string, TRUE)

NextHistory ==
    \/ \E moves_string \in MoveStrings : PerformRecorded(moves_string)
    \/ UndoMovesSequence
    \/ ResetCube

SpecHistory == InitSim /\ [][NextHistory]_vars

\* The grid after the entries of a history, oldest first, each entry's tokens
\* applied in order.
RECURSIVE HistoryApplied(_, _)
HistoryApplied(grid, history) ==
    IF grid = NoCube \/ history = <<>>
    THEN grid
    ELSE HistoryApplied(AppliedInOrder(grid, Head(history)), Tail(history))

\* C37: after any sequence of recorded perform_moves calls that went through
\* and undo_moves_sequence calls on a reset simulator, the cube is the solved
\* cube with the entries now in the history applied oldest first; whenever the
\* history is empty the cube is solved.
C37_HistoryConsistency ==
    /\ cube = HistoryApplied(create_solved_cube(SimSize), moves_history)
    /\ moves_history = <<>> => cube = create_solved_cube(SimSize)

\* Two sequences were recorded one after the other and then undone one after
\* the other: the second undo found the cube away from solved, emptied the
\* history and left the cube solved.
C37_Witness ==
    /\ last.op = "undo_moves_sequence"
    /\ last.direction = "undo_moves_sequence"
    /\ err = ""
    /\ steps = 2
    /\ moves_history = <<>>
    /\ pre # create_solved_cube(SimSize)
    /\ cube = create_solved_cube(SimSize)

(***************************************************************************)
(* C38: the whole-cube moves re-orient the cube.                           *)
(***************************************************************************)
\* C38: from every state, "y R y'" leaves the grid that "B" leaves, "x U x'"
\* the grid that "F" leaves and "z U z'" the grid that "L" leaves, and none of
\* the six strings is refused.
C38_RigidReorientation ==
    /\ performed(<<"y", " ", "R", " ", "y", "'">>).err = ""
    /\ performed(<<"B">>).err = ""
    /\ performed(<<"y", " ", "R", " ", "y", "'">>).cube = performed(<<"B">>).cube
    /\ performed(<<"x", " ", "U", " ", "x", "'">>).err = ""
    /\ performed(<<"F">>).err = ""
    /\ performed(<<"x", " ", "U", " ", "x", "'">>).cube = performed(<<"F">>).cube
    /\ performed(<<"z", " ", "U", " ", "z", "'">>).err = ""
    /\ performed(<<"L">>).err = ""
    /\ performed(<<"z", " ", "U", " ", "z", "'">>).cube = performed(<<"L">>).cube

\* A scrambled cube on which each of B, F and L changes the grid, and changes
\* it differently from the face move it is conjugated from.
C38_Witness ==
    /\ last.op = "scramble"
    /\ \A face \in Faces : \E sq \in Squares(SimSize) :
          sq[1] = face /\ cube[sq[1]][sq[2]][sq[3]] # cube[face][1][1]
    /\ performed(<<"y", " ", "R", " ", "y", "'">>).cube # cube
    /\ performed(<<"y", " ", "R", " ", "y", "'">>).cube # performed(<<"R">>).cube
    /\ performed(<<"x", " ", "U", " ", "x", "'">>).cube # performed(<<"U">>).cube
    /\ performed(<<"z", " ", "U", " ", "z", "'">>).cube # performed(<<"U">>).cube

(***************************************************************************)
(* C39: rotations about one axis, on different slices, commute.            *)
(***************************************************************************)
\* The directions a rotation takes.
MovesOf(op) == IF op = "rotate_y" THEN RowMove ELSE ColumnMove

\* C39: on a cube of size 2 or more, whenever slice i of an axis has been
\* rotated by d1 from any state, then for every other slice j of the same axis
\* and every direction d2, rotating j by d2 next leaves the grid that rotating
\* j by d2 first and i by d1 after it leaves.
C39_SameAxisCommute ==
    (size >= 2 /\ last.op \in Rotations /\ err = "") =>
        \A j \in (1..size) \ {last.index} : \A d2 \in MovesOf(last.op) :
           rotate(cube, size, last.op, j, d2).cube =
              rotate(rotate(pre, size, last.op, j, d2).cube,
                     size, last.op, last.index, last.direction).cube

\* Slice 1 of the x axis has been turned on a cube of size 3 on which no face
\* is of one colour, and turning slice 3 next changes the grid again, to one
\* that neither turn alone gives.
C39_Witness ==
    /\ size = 3
    /\ last = Call("rotate_x", 1, "UP")
    /\ err = ""
    /\ \A face \in Faces : \E sq \in Squares(size) :
          sq[1] = face /\ pre[sq[1]][sq[2]][sq[3]] # pre[face][0][0]
    /\ rotate(cube, size, "rotate_x", 3, "DOWN").cube
          \notin {pre, cube, rotate(pre, size, "rotate_x", 3, "DOWN").cube}

(***************************************************************************)
(* The 3x3 simulator given face moves only.                                *)
(***************************************************************************)
FaceSymbols == {"U", "D", "L", "R", "F", "B"}

\* Each face move plain, primed and doubled, and two longer sequences of face
\* moves.
FaceStrings ==
    {<<char>> \o modifier : char \in FaceSymbols, modifier \in Modifiers}
       \cup {moves_string \in MoveStrings :
                /\ Len(moves_string) > 6
                /\ \A i \in 1..Len(moves_string) :
                      moves_string[i] \in FaceSymbols \cup {" ", "'", "2"}}

NextFaces ==
    \/ \E moves_string \in FaceStrings : PerformMoves(moves_string, TRUE)
    \/ UndoMovesSequence

SpecFaces == InitSim /\ [][NextFaces]_vars

\* The centre squares of the six faces of a 3x3 grid.
Centres(grid) == [face \in Faces |-> grid[face][1][1]]

\* C40: in every state reached from the solved 3x3 cube by face moves U, D, L,
\* R, F, B with any modifiers, the centre square of each face has the colour
\* the face started with; from such a state a further face move, primed or
\* not, keeps the six centres, and each of the twelve other moves (M, E, S and
\* the wide and whole-cube moves built from them) changes a centre.
C40_CentresFixed ==
    /\ Centres(cube) = [face \in Faces |-> ColourOrder[face + 1]]
    /\ \A char \in get_moves : \A prime \in BOOLEAN :
          (Centres(rotations(cube, moves(char, prime))) = Centres(cube))
             <=> char \in FaceSymbols

\* Two sequences of face moves have been performed; every face holds squares
\* of another colour than its centre's, and the centres are the original ones.
C40_Witness ==
    /\ last.op = "perform_moves"
    /\ err = ""
    /\ steps = 2
    /\ Len(moves_history) = 2
    /\ \A face \in Faces : \E sq \in Squares(SimSize) :
          sq[1] = face /\ cube[sq[1]][sq[2]][sq[3]] # cube[face][1][1]
    /\ Centres(cube) = Centres(create_solved_cube(SimSize))

=============================================================================
